---- MODULE Spec2Model ----
(***************************************************************************)
(* AI Key Manager: the credential validation engine                        *)
(* (separate-projects/ai-key-manager/modules).                             *)
(*                                                                         *)
(* Strings of the program are sequences of one-character strings, so that  *)
(* str.lower(), str.startswith(), substring tests and the regular          *)
(* expressions of validators.py are computed, not assumed.  A message is   *)
(* the sequence of the parts its f-string is built from.                   *)
(***************************************************************************)
EXTENDS Integers, Sequences, FiniteSets, TLC

VARIABLES
    onl,      \* the last validate_key_online call: its arguments and its result
    secret,   \* keyring, service "ai-key-manager": account -> <<>> or <<password>>
    meta,     \* keyring, service "ai-key-manager-meta": account -> <<>> or <<record>>
    backup_file,  \* the metadata backup file: <<>> or <<snapshot>>
    now,      \* the wall clock read by datetime.now()
    ret,      \* the Key Manager operation that completed last, and what it returned
    before,   \* the keyring as it was when that operation started
    call,     \* the arguments of that operation, where a specification records them
    pure,     \* a call of a function of validators.py or utils.py, and its result
    config_file,  \* ~/.config/ai-key-manager/config.json, as load_config finds it
    runs      \* two invocations of the program that run at once, call by call

vars == <<onl, secret, meta, backup_file, now, ret, before, call, pure,
          config_file, runs>>

-----------------------------------------------------------------------------
(* Bounds of the model *)

MaxRetry == 3       \* largest validation.retry_attempts tried
MaxClock == 3       \* number of Key Manager operations in a run

-----------------------------------------------------------------------------
(* Characters and strings *)

UpperChars == <<"A","B","C","D","E","F","G","H","I","J","K","L","M",
                "N","O","P","Q","R","S","T","U","V","W","X","Y","Z">>
LowerChars == <<"a","b","c","d","e","f","g","h","i","j","k","l","m",
                "n","o","p","q","r","s","t","u","v","w","x","y","z">>
DigitChars == <<"0","1","2","3","4","5","6","7","8","9">>

Range(s) == {s[i] : i \in DOMAIN s}

AlNum == Range(UpperChars) \cup Range(LowerChars) \cup Range(DigitChars)

\* the lower-case letter of every upper-case letter
RECURSIVE LowerMapFrom(_)
LowerMapFrom(i) ==
    IF i > Len(UpperChars) THEN <<>>
    ELSE (UpperChars[i] :> LowerChars[i]) @@ LowerMapFrom(i + 1)

LowerMap == LowerMapFrom(1)

\* str.lower(), one character
LowerChar(c) == IF c \in DOMAIN LowerMap THEN LowerMap[c] ELSE c

\* str.lower(), character by character from position i
RECURSIVE LowerFrom(_, _)
LowerFrom(s, i) ==
    IF i > Len(s) THEN <<>>
    ELSE <<LowerChar(s[i])>> \o LowerFrom(s, i + 1)

\* str.lower()
Lower(s) == LowerFrom(s, 1)

\* str.startswith(prefix)
StartsWith(s, prefix) ==
    /\ Len(prefix) <= Len(s)
    /\ \A i \in 1..Len(prefix) : s[i] = prefix[i]

\* the Python test `sub in s`
Contains(s, sub) ==
    \E off \in 0..(Len(s) - Len(sub)) :
        SubSeq(s, off + 1, off + Len(sub)) = sub

\* c * n
Rep(c, n) == [i \in 1..n |-> c]

\* str(n) of a non-negative integer
RECURSIVE DecStr(_)
DecStr(n) ==
    IF n < 10 THEN <<DigitChars[n + 1]>>
    ELSE DecStr(n \div 10) \o <<DigitChars[(n % 10) + 1]>>

-----------------------------------------------------------------------------
(* Provider registry: config.py DEFAULT_CONFIG["providers"], plus one       *)
(* provider added by the user's configuration.                             *)

openai     == <<"o","p","e","n","a","i">>
anthropic  == <<"a","n","t","h","r","o","p","i","c">>
gemini     == <<"g","e","m","i","n","i">>
perplexity == <<"p","e","r","p","l","e","x","i","t","y">>
groq       == <<"g","r","o","q">>
mistral    == <<"m","i","s","t","r","a","l">>      \* user-configured, no probe
OpenAI     == <<"O","p","e","n","A","I">>          \* openai in another casing
cohere     == <<"c","o","h","e","r","e">>          \* not in the registry

ProviderConfig(key_prefix, api_url) ==
    [key_prefix |-> key_prefix, api_url |-> <<api_url>>]

DefaultProviders ==
    (openai     :> ProviderConfig(<<"s","k","-">>,
                                  "https://api.openai.com/v1/models")) @@
    (anthropic  :> ProviderConfig(<<"s","k","-","a","n","t","-">>,
                                  "https://api.anthropic.com/v1/messages")) @@
    (gemini     :> ProviderConfig(<<"A","I","z","a">>,
                    "https://generativelanguage.googleapis.com/v1/models")) @@
    (perplexity :> ProviderConfig(<<"p","p","l","x","-">>,
                                  "https://api.perplexity.ai/chat/completions")) @@
    (groq       :> ProviderConfig(<<"g","s","k","_">>,
                                  "https://api.groq.com/openai/v1/models"))

Providers ==
    DefaultProviders @@
    (mistral :> ProviderConfig(<<>>, "https://api.mistral.ai/v1/models"))

\* config.get("providers", {}).get(provider.lower()): <<>> is None
get_provider_config(provider) ==
    IF Lower(provider) \in DOMAIN Providers
    THEN <<Providers[Lower(provider)]>>
    ELSE <<>>

-----------------------------------------------------------------------------
(* The transport (requests.get / requests.post) as seen by one probe: what   *)
(* the network answers to the request.  exc is "" when a response arrives.  *)

Reply(exc, status, json, models, key_invalid) ==
    [exc |-> exc, status |-> status, json |-> json, models |-> models,
     key_invalid |-> key_invalid]

ok200       == Reply("", 200, TRUE, 2, FALSE)
bad200      == Reply("", 200, FALSE, 0, FALSE)    \* a 200 whose body is not JSON
s401        == Reply("", 401, TRUE, 0, FALSE)
s403        == Reply("", 403, TRUE, 0, FALSE)
s429        == Reply("", 429, TRUE, 0, FALSE)
s400invalid == Reply("", 400, TRUE, 0, TRUE)      \* body names API_KEY_INVALID
s400        == Reply("", 400, TRUE, 0, FALSE)
s400garbage == Reply("", 400, FALSE, 0, FALSE)
connError   == Reply("ConnectionError", 0, FALSE, 0, FALSE)
timedOut    == Reply("Timeout", 0, FALSE, 0, FALSE)

Replies == {ok200, bad200, s401, s403, s429, s400invalid, s400, s400garbage,
            connError, timedOut}

\* str(e) of the exception requests raises for a request to url
ExcText(exc, url) ==
    IF exc = "ConnectionError"
    THEN <<"Max retries exceeded with url: ">> \o url
    ELSE <<"Read timed out.">>

JsonErrorText == <<"Expecting value: line 1 column 1 (char 0)">>

\* What one provider probe hands back to the retry loop: a verdict
\* (success, message, details) or an exception (exc, with its text).
\* details: <<>> is None, <<n>> is {"models": n}.
Verdict(success, message, details) ==
    [exc |-> FALSE, text |-> <<>>, success |-> success, message |-> message,
     details |-> details]

Raises(text) ==
    [exc |-> TRUE, text |-> text, success |-> FALSE, message |-> <<>>,
     details |-> <<>>]

ApiError(status) == Verdict(FALSE, <<"API error: ">> \o DecStr(status), <<>>)

ModelsAvailable(n) ==
    Verdict(TRUE, <<"Valid - ">> \o DecStr(n) \o <<" models available">>, <<n>>)

\* mutant: openai maps 429 to "valid but rate limited" as anthropic does
_validate_openai_online_429Valid(key, url, r) ==
    IF r.exc # "" THEN Raises(ExcText(r.exc, url))
    ELSE IF r.status = 200
         THEN IF r.json THEN ModelsAvailable(r.models) ELSE Raises(JsonErrorText)
    ELSE IF r.status = 401 THEN Verdict(FALSE, <<"Invalid API key">>, <<>>)
    ELSE IF r.status = 429 THEN Verdict(TRUE, <<"Valid but rate limited">>, <<>>)
    ELSE ApiError(r.status)

_validate_openai_online(key, url, r) ==
    IF r.exc # "" THEN Raises(ExcText(r.exc, url))
    ELSE IF r.status = 200
         THEN IF r.json THEN ModelsAvailable(r.models) ELSE Raises(JsonErrorText)
    ELSE IF r.status = 401 THEN Verdict(FALSE, <<"Invalid API key">>, <<>>)
    ELSE ApiError(r.status)

_validate_anthropic_online(key, url, r) ==
    IF r.exc # "" THEN Raises(ExcText(r.exc, url))
    ELSE IF r.status = 200 THEN Verdict(TRUE, <<"Valid API key">>, <<>>)
    ELSE IF r.status = 401 THEN Verdict(FALSE, <<"Invalid API key">>, <<>>)
    ELSE IF r.status = 429 THEN Verdict(TRUE, <<"Valid but rate limited">>, <<>>)
    ELSE ApiError(r.status)

\* mutant: the 403 branch is missing
_validate_gemini_online_No403(key, url, r) ==
    IF r.exc # "" THEN Raises(ExcText(r.exc, url \o <<"?key=">> \o key))
    ELSE IF r.status = 200
         THEN IF r.json THEN ModelsAvailable(r.models) ELSE Raises(JsonErrorText)
    ELSE IF r.status = 400
         THEN IF ~r.json THEN Raises(JsonErrorText)
              ELSE IF r.key_invalid THEN Verdict(FALSE, <<"Invalid API key">>, <<>>)
              ELSE ApiError(r.status)
    ELSE ApiError(r.status)

_validate_gemini_online(key, url, r) ==
    IF r.exc # "" THEN Raises(ExcText(r.exc, url \o <<"?key=">> \o key))
    ELSE IF r.status = 200
         THEN IF r.json THEN ModelsAvailable(r.models) ELSE Raises(JsonErrorText)
    ELSE IF r.status = 400
         THEN IF ~r.json THEN Raises(JsonErrorText)
              ELSE IF r.key_invalid THEN Verdict(FALSE, <<"Invalid API key">>, <<>>)
              ELSE ApiError(r.status)
    ELSE IF r.status = 403 THEN Verdict(FALSE, <<"API key lacks permissions">>, <<>>)
    ELSE ApiError(r.status)

_validate_perplexity_online(key, url, r) ==
    IF r.exc # "" THEN Raises(ExcText(r.exc, url))
    ELSE IF r.status = 200 THEN Verdict(TRUE, <<"Valid API key">>, <<>>)
    ELSE IF r.status = 401 THEN Verdict(FALSE, <<"Invalid API key">>, <<>>)
    ELSE IF r.status = 429 THEN Verdict(TRUE, <<"Valid but rate limited">>, <<>>)
    ELSE ApiError(r.status)

\* mutant: the 401 branch is missing
_validate_groq_online_No401(key, url, r) ==
    IF r.exc # "" THEN Raises(ExcText(r.exc, url))
    ELSE IF r.status = 200
         THEN IF r.json THEN ModelsAvailable(r.models) ELSE Raises(JsonErrorText)
    ELSE ApiError(r.status)

_validate_groq_online(key, url, r) ==
    IF r.exc # "" THEN Raises(ExcText(r.exc, url))
    ELSE IF r.status = 200
         THEN IF r.json THEN ModelsAvailable(r.models) ELSE Raises(JsonErrorText)
    ELSE IF r.status = 401 THEN Verdict(FALSE, <<"Invalid API key">>, <<>>)
    ELSE ApiError(r.status)

\* the providers validate_key_online has a probe for
Probed == {openai, anthropic, gemini, perplexity, groq}

\* the dispatch on provider.lower() inside the retry loop
Probe(provider, key, r) ==
    LET p   == Lower(provider)
        url == get_provider_config(provider)[1].api_url
    IN  IF p = openai THEN _validate_openai_online(key, url, r)
        ELSE IF p = anthropic THEN _validate_anthropic_online(key, url, r)
        ELSE IF p = gemini THEN _validate_gemini_online(key, url, r)
        ELSE IF p = perplexity THEN _validate_perplexity_online(key, url, r)
        ELSE _validate_groq_online(key, url, r)

-----------------------------------------------------------------------------
(* validate_key_online: the retry loop.  script[i] is the transport's answer *)
(* to the i-th request; log records the probes and sleeps in order.          *)

\* the answer to the i-th request
Answer(script, i) == IF i \in DOMAIN script THEN script[i] ELSE connError

\* what validate_key_online returns; raised: an exception reached the caller
Result(valid, message, details, log) ==
    [valid |-> valid, message |-> message, details |-> details, log |-> log,
     raised |-> FALSE]

Count(log, ev) == Cardinality({i \in DOMAIN log : log[i] = ev})

\* mutant: a valid verdict does not end the loop early
ReturnsVerdict_LastOnly(success, attempt, retry_attempts) ==
    attempt = retry_attempts - 1

\* mutant: the first verdict is returned, valid or not
ReturnsVerdict_First(success, attempt, retry_attempts) == TRUE

\* `if success or attempt == retry_attempts - 1: return success, message, details`
ReturnsVerdict(success, attempt, retry_attempts) ==
    success \/ attempt = retry_attempts - 1

\* mutant: the last exception is reported with the generic message
OnException_Generic(text, attempt, retry_attempts, log) ==
    IF attempt = retry_attempts - 1
    THEN <<Result(FALSE, <<"Validation failed after retries">>, <<>>, log)>>
    ELSE <<>>

\* mutant: the last exception is raised again
OnException_Reraise(text, attempt, retry_attempts, log) ==
    IF attempt = retry_attempts - 1
    THEN <<[Result(FALSE, <<"Validation error: ">> \o text, <<>>, log)
               EXCEPT !.raised = TRUE]>>
    ELSE <<>>

\* `except Exception as e: if attempt == retry_attempts - 1: return ...`
OnException(text, attempt, retry_attempts, log) ==
    IF attempt = retry_attempts - 1
    THEN <<Result(FALSE, <<"Validation error: ">> \o text, <<>>, log)>>
    ELSE <<>>

\* mutant: the delay is taken twice
Sleep_Twice(log) == Append(Append(log, "sleep"), "sleep")

\* time.sleep(retry_delay) between two attempts
Sleep(log) == Append(log, "sleep")

RECURSIVE RetryLoop(_, _, _, _, _, _)
RetryLoop(provider, key, retry_attempts, script, attempt, log) ==
    IF attempt >= retry_attempts
    THEN Result(FALSE, <<"Validation failed after retries">>, <<>>, log)
    ELSE IF Lower(provider) \notin Probed
    THEN Result(FALSE, <<"Online validation not implemented for ">> \o provider,
                <<>>, log)
    ELSE LET r    == Probe(provider, key, Answer(script, Count(log, "probe") + 1))
             log1 == Append(log, "probe")
         IN  IF r.exc
             THEN LET out == OnException(r.text, attempt, retry_attempts, log1)
                  IN  IF out # <<>> THEN out[1]
                      ELSE RetryLoop(provider, key, retry_attempts, script,
                                     attempt + 1, Sleep(log1))
             ELSE IF ReturnsVerdict(r.success, attempt, retry_attempts)
                  THEN Result(r.success, r.message, r.details, log1)
                  ELSE RetryLoop(provider, key, retry_attempts, script,
                                 attempt + 1, Sleep(log1))

validate_key_online(provider, key, retry_attempts, script) ==
    IF get_provider_config(provider) = <<>>
    THEN Result(FALSE, <<"Unknown provider: ">> \o provider, <<>>, <<>>)
    ELSE RetryLoop(provider, key, retry_attempts, script, 0, <<>>)

-----------------------------------------------------------------------------
(* Initial state *)

\* accounts of the keyring the model follows
Accounts == {openai, anthropic, gemini, perplexity, groq, OpenAI, cohere}

\* the providers the operations of Spec are called for
Callers == {openai, OpenAI, gemini, cohere}

\* what a Key Manager operation returned: ok for a bool, count for import's
\* count, results for validate_keys' map (in insertion order) and for the
\* list of list_keys, text for show_key's text (<<>> is None); raised when
\* the operation ended in an exception that reached the caller
Ret(op, provider, ok, count, results) ==
    [op |-> op, provider |-> provider, ok |-> ok, count |-> count,
     results |-> results, text |-> <<>>, raised |-> FALSE]

\* no Key Manager operation has completed yet
NoRet == Ret("none", <<>>, FALSE, 0, <<>>)

\* no validate_key_online call has been made yet
NoCall ==
    [called |-> FALSE, provider |-> <<>>, key |-> <<>>, retry_attempts |-> 0,
     script |-> <<>>, result |-> Result(FALSE, <<>>, <<>>, <<>>)]

\* the arguments of a Key Manager operation: provider is <<>> or <<p>>, net
\* maps the providers probed to the transport script of their probes, F is
\* the set of keyring calls that raise
Args(op, provider, api_key, env_vars, force, validate, require_validation, net, F) ==
    [op |-> op, provider |-> provider, api_key |-> api_key,
     env_vars |-> env_vars, force |-> force, validate |-> validate,
     require_validation |-> require_validation, net |-> net, F |-> F,
     details |-> FALSE, reveal_key |-> FALSE]

\* no arguments are recorded
NoArgs == Args("none", <<>>, <<>>, <<>>, FALSE, FALSE, FALSE, <<>>, {})

\* no function call is recorded
NoPure ==
    [fn |-> "none", called |-> FALSE, provider |-> <<>>, key |-> <<>>,
     reveal |-> FALSE, with_config |-> FALSE, ok |-> FALSE, out |-> <<>>]

\* no invocation runs beside the recorded one
NoRuns == <<>>

\* an empty keyring
Init ==
    /\ onl = NoCall
    /\ secret = [a \in Accounts |-> <<>>]
    /\ meta = [a \in Accounts |-> <<>>]
    /\ backup_file = <<>>
    /\ now = 0
    /\ ret = NoRet
    /\ before = [secret |-> [a \in Accounts |-> <<>>],
                 meta |-> [a \in Accounts |-> <<>>]]
    /\ call = NoArgs
    /\ pure = NoPure
    /\ config_file = "user"
    /\ runs = NoRuns

-----------------------------------------------------------------------------
(* SpecOnline: validate_key_online called on its own, with every provider   *)
(* identifier, every retry_attempts up to MaxRetry and every transport      *)
(* script of that length.                                                   *)

OnlineIdents == {openai, anthropic, gemini, perplexity, groq, OpenAI, mistral, cohere}

probeKey == <<"A","I","z","a","K","9">>

\* the arguments of the call, drawn before it is made
InitOnline ==
    /\ \E provider \in OnlineIdents, retry_attempts \in 0..MaxRetry :
           \E script \in [1..retry_attempts -> Replies] :
               onl = [called |-> FALSE, provider |-> provider, key |-> probeKey,
                      retry_attempts |-> retry_attempts, script |-> script,
                      result |-> Result(FALSE, <<>>, <<>>, <<>>)]
    /\ secret = [a \in Accounts |-> <<>>]
    /\ meta = [a \in Accounts |-> <<>>]
    /\ backup_file = <<>>
    /\ now = 0
    /\ ret = NoRet
    /\ before = [secret |-> [a \in Accounts |-> <<>>],
                 meta |-> [a \in Accounts |-> <<>>]]
    /\ call = NoArgs
    /\ pure = NoPure
    /\ config_file = "user"
    /\ runs = NoRuns

\* one call per run of the validator
OnlineCall ==
    /\ ~onl.called
    /\ onl' = [onl EXCEPT !.called = TRUE,
                          !.result = validate_key_online(onl.provider, onl.key,
                                                         onl.retry_attempts, onl.script)]
    /\ UNCHANGED <<secret, meta, backup_file, now, ret, before, call, pure,
                   config_file, runs>>

NextOnline == OnlineCall

SpecOnline == InitOnline /\ [][NextOnline]_vars

\* the call in onl, as the claims read it
HasProbe == onl.called /\ Lower(onl.provider) \in Probed
Probes == Count(onl.result.log, "probe")
Sleeps == Count(onl.result.log, "sleep")
\* what the probe of attempt i (1-based) hands to the retry loop
Attempt(i) == Probe(onl.provider, onl.key, Answer(onl.script, i))
Returned == [valid |-> onl.result.valid, message |-> onl.result.message,
             details |-> onl.result.details]
VerdictOf(v) == [valid |-> v.success, message |-> v.message, details |-> v.details]

-----------------------------------------------------------------------------
(* Claims about validate_key_online, checked under SpecOnline *)

\* C2: the probes are issued in sequence, never more than retry_attempts of
\* them, none after an attempt whose verdict is valid; and when attempts
\* 1..k-1 raise a transient exception and attempt k returns a 200, the result
\* is valid after exactly k probes.
C2_StopsAtFirstValid ==
    HasProbe =>
        /\ Probes <= onl.retry_attempts
        /\ \A i \in 1..(Probes - 1) : Attempt(i).exc \/ ~Attempt(i).success
        /\ \A k \in 1..onl.retry_attempts :
               ( /\ \A i \in 1..(k - 1) : onl.script[i].exc # ""
                 /\ onl.script[k] = ok200 )
               => (onl.result.valid /\ Probes = k)

\* two transient exceptions, then a 200, with retry_attempts = 3
C2_Witness ==
    /\ HasProbe
    /\ onl.retry_attempts = 3
    /\ onl.script = <<connError, timedOut, ok200>>
    /\ onl.result.valid
    /\ Probes = 3

\* every probe of the call raised an exception
AllAttemptsRaised ==
    /\ HasProbe
    /\ \A i \in 1..onl.retry_attempts : Attempt(i).exc

\* C3 as stated: when every probe raises, the result is invalid with the
\* generic message "Validation failed after retries".
C3_GenericAfterRetries ==
    AllAttemptsRaised =>
        /\ ~onl.result.valid
        /\ onl.result.message = <<"Validation failed after retries">>

\* C3 amended: when every probe raises, the result is invalid and its message
\* is "Validation error: " followed by the text of the last exception; the
\* generic message is returned only when retry_attempts is 0 and no probe is made.
C3_LastExceptionReported ==
    AllAttemptsRaised =>
        /\ ~onl.result.valid
        /\ onl.result.details = <<>>
        /\ onl.result.message =
               IF onl.retry_attempts = 0
               THEN <<"Validation failed after retries">>
               ELSE <<"Validation error: ">> \o Attempt(onl.retry_attempts).text

C3_Witness ==
    /\ AllAttemptsRaised
    /\ onl.retry_attempts = 3
    /\ Probes = 3
    /\ onl.result.message = <<"Validation error: ", "Read timed out.">>

\* C4: when all retry_attempts attempts are used and the last one returns a
\* verdict, the result is that verdict; a failed verdict of an earlier
\* attempt is followed by another attempt.
C4_LastVerdictStands ==
    HasProbe =>
        /\ ( /\ onl.retry_attempts >= 1
             /\ Probes = onl.retry_attempts
             /\ ~Attempt(Probes).exc )
           => Returned = VerdictOf(Attempt(Probes))
        /\ \A i \in 1..Probes :
               (i < onl.retry_attempts /\ ~Attempt(i).exc /\ ~Attempt(i).success)
               => Probes > i

\* a 401, an exception, then a 403: the 403 verdict is the result
C4_Witness ==
    /\ HasProbe
    /\ Lower(onl.provider) = openai
    /\ onl.script = <<s401, connError, s403>>
    /\ Probes = 3
    /\ onl.result.message = <<"API error: ", "4", "0", "3">>

\* the transport answers 401 to every attempt
Always401 ==
    /\ HasProbe
    /\ onl.retry_attempts >= 1
    /\ \A i \in 1..onl.retry_attempts : onl.script[i] = s401

C6_ValidOn200Or429 ==
    HasProbe =>
        \A i \in 1..Probes :
            LET v == Attempt(i)
                r == onl.script[i]
                p == Lower(onl.provider)
            IN  ~v.exc =>
                    /\ v.success <=>
                           \/ r.status = 200
                           \/ (r.status = 429 /\ p \in {anthropic, perplexity})
                    /\ (r.status = 429 /\ v.success)
                           => v.message = <<"Valid but rate limited">>

C6_Witness ==
    /\ HasProbe
    /\ onl.provider = anthropic
    /\ onl.script = <<s429>>
    /\ onl.result.valid
    /\ onl.result.message = <<"Valid but rate limited">>

\* the single probe of the call was answered 403
Single403 ==
    /\ HasProbe
    /\ onl.retry_attempts = 1
    /\ onl.script = <<s403>>

\* C7 as stated: a 403 gives, for every provider, an invalid verdict with
\* the message that the key lacks permissions.
C7_LacksPermissionsOn403 ==
    Single403 =>
        /\ ~onl.result.valid
        /\ onl.result.message = <<"API key lacks permissions">>

\* C7 amended: a 403 gives an invalid verdict for every provider; the
\* message is "API key lacks permissions" for gemini only, and the generic
\* "API error: 403" for openai, anthropic, perplexity and groq.
C7_LacksPermissionsGeminiOnly ==
    Single403 =>
        /\ ~onl.result.valid
        /\ onl.result.message =
               IF Lower(onl.provider) = gemini
               THEN <<"API key lacks permissions">>
               ELSE <<"API error: ", "4", "0", "3">>

C7_Witness ==
    /\ Single403
    /\ onl.provider = gemini
    /\ onl.result.message = <<"API key lacks permissions">>

\* C8: no exception of a probe reaches the caller: every call ends with a
\* (valid, message, details) result, and the result is invalid when the last
\* attempt made raised.
C8_NoExceptionEscapes ==
    onl.called =>
        /\ ~onl.result.raised
        /\ onl.result.valid \in BOOLEAN
        /\ onl.result.message # <<>>
        /\ (Probes >= 1 /\ Attempt(Probes).exc) => ~onl.result.valid

\* the last of three attempts got a 200 whose body is not JSON
C8_Witness ==
    /\ HasProbe
    /\ onl.provider = groq
    /\ onl.script = <<s401, s403, bad200>>
    /\ Probes = 3
    /\ ~onl.result.valid

-----------------------------------------------------------------------------
(* validate_key_format *)

FormatResult(ok, message) == [ok |-> ok, message |-> message]

\* the positions where `$` can match: the end of the string, or just before
\* a newline that ends it
DollarEnds(key) ==
    {Len(key)} \cup
    (IF Len(key) > 0 /\ key[Len(key)] = "\n" THEN {Len(key) - 1} ELSE {})

\* re.match(r'^<prefix>[<class>]{lo,hi}$', key)
MatchBetween(key, prefix, class, lo, hi) ==
    \E end \in DollarEnds(key) :
        /\ StartsWith(key, prefix)
        /\ end - Len(prefix) >= lo
        /\ end - Len(prefix) <= hi
        /\ \A i \in (Len(prefix) + 1)..end : key[i] \in class

\* re.match(r'^<prefix>[<class>]{lo,}$', key)
MatchAtLeast(key, prefix, class, lo) ==
    MatchBetween(key, prefix, class, lo, Len(key))

_validate_openai_format(key) ==
    IF MatchBetween(key, <<"s","k","-">>, AlNum, 48, 51)
    THEN FormatResult(TRUE, <<"Valid format">>)
    ELSE FormatResult(FALSE,
             <<"Invalid OpenAI key format (should be sk-[48-51 alphanumeric chars])">>)

_validate_anthropic_format(key) ==
    IF MatchAtLeast(key, <<"s","k","-","a","n","t","-">>, AlNum \cup {"-", "_"}, 50)
    THEN FormatResult(TRUE, <<"Valid format">>)
    ELSE FormatResult(FALSE,
             <<"Invalid Anthropic key format (should be sk-ant-[50+ chars])">>)

_validate_gemini_format(key) ==
    IF MatchBetween(key, <<"A","I","z","a">>, AlNum \cup {"-", "_"}, 35, 39)
    THEN FormatResult(TRUE, <<"Valid format">>)
    ELSE FormatResult(FALSE,
             <<"Invalid Gemini key format (should be AIza[35-39 chars])">>)

_validate_perplexity_format(key) ==
    IF MatchAtLeast(key, <<"p","p","l","x","-">>, AlNum, 32)
    THEN FormatResult(TRUE, <<"Valid format">>)
    ELSE FormatResult(FALSE,
             <<"Invalid Perplexity key format (should be pplx-[32+ alphanumeric chars])">>)

_validate_groq_format(key) ==
    IF MatchAtLeast(key, <<"g","s","k","_">>, AlNum, 50)
    THEN FormatResult(TRUE, <<"Valid format">>)
    ELSE FormatResult(FALSE,
             <<"Invalid Groq key format (should be gsk_[50+ alphanumeric chars])">>)

_validate_generic_format(key, prefix) ==
    IF Len(key) < 20
    THEN FormatResult(FALSE, <<"Key appears too short (minimum 20 characters)">>)
    ELSE IF Len(key) > 200
    THEN FormatResult(FALSE, <<"Key appears too long (maximum 200 characters)">>)
    ELSE IF ~MatchAtLeast(key, <<>>, AlNum \cup {"-", "_", "."}, 1)
    THEN FormatResult(FALSE, <<"Key contains invalid characters">>)
    ELSE FormatResult(TRUE, <<"Valid format">>)

\* the provider pattern that validate_key_format applies last
ProviderFormat(p, key, key_prefix) ==
    IF p = openai THEN _validate_openai_format(key)
    ELSE IF p = anthropic THEN _validate_anthropic_format(key)
    ELSE IF p = gemini THEN _validate_gemini_format(key)
    ELSE IF p = perplexity THEN _validate_perplexity_format(key)
    ELSE IF p = groq THEN _validate_groq_format(key)
    ELSE _validate_generic_format(key, key_prefix)

\* mutant: the key is tested for emptiness before the provider is looked up
validate_key_format_EmptyFirst(provider, key) ==
    LET provider_config == get_provider_config(provider)
        key_prefix == provider_config[1].key_prefix
    IN  IF key = <<>>
        THEN FormatResult(FALSE, <<"Key is empty">>)
        ELSE IF provider_config = <<>>
        THEN FormatResult(FALSE, <<"Unknown provider: ">> \o provider)
        ELSE IF key_prefix # <<>> /\ ~StartsWith(key, key_prefix)
        THEN FormatResult(FALSE, <<"Key must start with '">> \o key_prefix \o <<"'">>)
        ELSE ProviderFormat(Lower(provider), key, key_prefix)

\* mutant: the prefix is left to the provider pattern
validate_key_format_NoPrefixCheck(provider, key) ==
    LET provider_config == get_provider_config(provider)
        key_prefix == provider_config[1].key_prefix
    IN  IF provider_config = <<>>
        THEN FormatResult(FALSE, <<"Unknown provider: ">> \o provider)
        ELSE IF key = <<>>
        THEN FormatResult(FALSE, <<"Key is empty">>)
        ELSE ProviderFormat(Lower(provider), key, key_prefix)

validate_key_format(provider, key) ==
    LET provider_config == get_provider_config(provider)
        key_prefix == provider_config[1].key_prefix
        p == Lower(provider)
    IN  IF provider_config = <<>>
        THEN FormatResult(FALSE, <<"Unknown provider: ">> \o provider)
        ELSE IF key = <<>>
        THEN FormatResult(FALSE, <<"Key is empty">>)
        ELSE IF key_prefix # <<>> /\ ~StartsWith(key, key_prefix)
        THEN FormatResult(FALSE, <<"Key must start with '">> \o key_prefix \o <<"'">>)
        ELSE IF p = openai THEN _validate_openai_format(key)
        ELSE IF p = anthropic THEN _validate_anthropic_format(key)
        ELSE IF p = gemini THEN _validate_gemini_format(key)
        ELSE IF p = perplexity THEN _validate_perplexity_format(key)
        ELSE IF p = groq THEN _validate_groq_format(key)
        ELSE _validate_generic_format(key, key_prefix)

-----------------------------------------------------------------------------
(* The keyring.  F is the set of calls that raise, each a pair of the kind  *)
(* of call and the account it is made for; F is empty when the credential   *)
(* store works.  st is the pair of keyring services.                        *)

Fails(F, kind, account) == <<kind, account>> \in F

Store(sec, met) == [secret |-> sec, meta |-> met]

\* keyring.get_password: <<>> is None
KeyringGet(service, account) ==
    IF account \in DOMAIN service THEN service[account] ELSE <<>>

\* keyring.set_password
KeyringSet(service, account, value) ==
    [service EXCEPT ![account] = <<value>>]

\* keyring.delete_password of an entry that exists
KeyringDelete(service, account) ==
    [service EXCEPT ![account] = <<>>]

\* The metadata dict.  keys is the set of keys the dict has; a timestamp is
\* <<>> (None) or <<t>> (the isoformat of clock reading t).  The keyring
\* holds json.dumps of the dict and json.loads reads it back unchanged.
MetaDict(keys, provider, created_at, last_validated, validation_status) ==
    [keys |-> keys, provider |-> provider, created_at |-> created_at,
     last_validated |-> last_validated, validation_status |-> validation_status]

EmptyDict == MetaDict({}, <<>>, <<>>, <<>>, "")

\* mutant: the record of a key that passed the gate
NewMetadata_Validated(provider, t) ==
    MetaDict({"provider", "created_at", "last_validated", "validation_status"},
             provider, <<t>>, <<t>>, "valid")

\* the metadata _store_key writes
NewMetadata(provider, t) ==
    MetaDict({"provider", "created_at", "last_validated", "validation_status"},
             provider, <<t>>, <<>>, "unknown")

_key_exists(st, provider, F) ==
    IF Fails(F, "get", provider) THEN FALSE
    ELSE KeyringGet(st.secret, provider) # <<>>

\* mutant: the metadata record is not written
_store_key_NoMetadata(st, provider, api_key, t, F) ==
    IF Fails(F, "set", provider) THEN [st |-> st, ok |-> FALSE]
    ELSE [st |-> Store(KeyringSet(st.secret, provider, api_key), st.meta),
          ok |-> TRUE]

\* mutant: a metadata record that exists is left as it is
_store_key_KeepsMetadata(st, provider, api_key, t, F) ==
    IF Fails(F, "set", provider) THEN [st |-> st, ok |-> FALSE]
    ELSE LET sec1 == KeyringSet(st.secret, provider, api_key)
         IN  IF Fails(F, "set_meta", provider)
             THEN [st |-> Store(sec1, st.meta), ok |-> FALSE]
             ELSE IF KeyringGet(st.meta, provider) # <<>>
             THEN [st |-> Store(sec1, st.meta), ok |-> TRUE]
             ELSE [st |-> Store(sec1, KeyringSet(st.meta, provider,
                                                 NewMetadata(provider, t))),
                   ok |-> TRUE]

_store_key(st, provider, api_key, t, F) ==
    IF Fails(F, "set", provider) THEN [st |-> st, ok |-> FALSE]
    ELSE LET sec1 == KeyringSet(st.secret, provider, api_key)
         IN  IF Fails(F, "set_meta", provider)
             THEN [st |-> Store(sec1, st.meta), ok |-> FALSE]
             ELSE [st |-> Store(sec1, KeyringSet(st.meta, provider,
                                                 NewMetadata(provider, t))),
                   ok |-> TRUE]

_get_key_metadata(st, provider, F) ==
    IF Fails(F, "get_meta", provider) \/ KeyringGet(st.meta, provider) = <<>>
    THEN EmptyDict
    ELSE KeyringGet(st.meta, provider)[1]

\* mutant: a record that exists keeps its created_at
_update_key_metadata_KeepsCreated(st, provider, metadata, F) ==
    IF Fails(F, "set_meta", provider) THEN [st |-> st, ok |-> FALSE]
    ELSE LET old == KeyringGet(st.meta, provider)
             new == IF old = <<>> THEN metadata
                    ELSE [metadata EXCEPT !.created_at = old[1].created_at]
         IN  [st |-> Store(st.secret, KeyringSet(st.meta, provider, new)),
              ok |-> TRUE]

_update_key_metadata(st, provider, metadata, F) ==
    IF Fails(F, "set_meta", provider) THEN [st |-> st, ok |-> FALSE]
    ELSE [st |-> Store(st.secret, KeyringSet(st.meta, provider, metadata)),
          ok |-> TRUE]

\* config["providers"].keys(), in the order of the configuration
ProviderOrder == <<openai, anthropic, gemini, perplexity, groq, mistral>>

\* list_keys(): with no provider, the configured providers that have a key
list_keys(st, provider, F) ==
    LET providers == IF provider # <<>> THEN provider ELSE ProviderOrder
        exists(prov) == _key_exists(st, prov, F)
    IN  SelectSeq(providers, exists)

-----------------------------------------------------------------------------
(* Key Manager operations.  t is the reading of datetime.now(); script and  *)
(* net are what the network answers to the probes of the operation.         *)

\* config["validation"]["retry_attempts"]
RetryAttempts == 3

KeyringErrorText == <<"keyring error">>

\* the transport script for the probes of prov
NetFor(net, prov) ==
    IF Lower(prov) \in DOMAIN net THEN net[Lower(prov)] ELSE <<>>

\* one entry of validate_keys' results; has_details: the entry has the key
\* "details"
ValidationEntry(prov, valid, message, has_details, details) ==
    [provider |-> prov, valid |-> valid, message |-> message,
     has_details |-> has_details, details |-> details]

\* mutant: a verdict leaves the status as it was
Validated_KeepsStatus(metadata, online_valid, t) ==
    [metadata EXCEPT
        !.keys = @ \cup {"last_validated", "validation_status"},
        !.last_validated = <<t>>]

\* metadata["last_validated"] = now; metadata["validation_status"] = ...
Validated(metadata, online_valid, t) ==
    [metadata EXCEPT
        !.keys = @ \cup {"last_validated", "validation_status"},
        !.last_validated = <<t>>,
        !.validation_status = IF online_valid THEN "valid" ELSE "invalid"]

\* the body of validate_keys' loop for one provider
ValidateOne(st, prov, script, t, F) ==
    IF Fails(F, "get", prov)
    THEN [st |-> st,
          entry |-> ValidationEntry(prov, FALSE,
                        <<"Validation error: ">> \o KeyringErrorText, FALSE, <<>>)]
    ELSE LET stored == KeyringGet(st.secret, prov)
         IN  IF stored = <<>> \/ stored[1] = <<>>
             THEN [st |-> st,
                   entry |-> ValidationEntry(prov, FALSE, <<"Key not found">>,
                                             FALSE, <<>>)]
             ELSE LET api_key == stored[1]
                      format  == validate_key_format(prov, api_key)
                      online  == validate_key_online(prov, api_key,
                                                     RetryAttempts, script)
                      metadata == Validated(_get_key_metadata(st, prov, F),
                                            online.valid, t)
                  IN  IF ~format.ok
                      THEN [st |-> st,
                            entry |-> ValidationEntry(prov, FALSE,
                                <<"Format error: ">> \o format.message, FALSE, <<>>)]
                      ELSE [st |-> _update_key_metadata(st, prov, metadata, F).st,
                            entry |-> ValidationEntry(prov, online.valid,
                                online.message, TRUE, online.details)]

\* mutant: a provider without a credential gets no entry
RECURSIVE ValidateLoop_SkipsMissing(_, _, _, _, _, _, _)
ValidateLoop_SkipsMissing(st, providers, i, net, t, F, results) ==
    IF i > Len(providers) THEN [st |-> st, results |-> results]
    ELSE LET one == ValidateOne(st, providers[i], NetFor(net, providers[i]), t, F)
         IN  ValidateLoop_SkipsMissing(one.st, providers, i + 1, net, t, F,
                 IF KeyringGet(st.secret, providers[i]) = <<>> THEN results
                 ELSE Append(results, one.entry))

RECURSIVE ValidateLoop(_, _, _, _, _, _, _)
ValidateLoop(st, providers, i, net, t, F, results) ==
    IF i > Len(providers) THEN [st |-> st, results |-> results]
    ELSE LET one == ValidateOne(st, providers[i], NetFor(net, providers[i]), t, F)
         IN  ValidateLoop(one.st, providers, i + 1, net, t, F,
                          Append(results, one.entry))

\* validate_keys(provider): provider is <<>> (None) or <<p>>
validate_keys(st, provider, net, t, F) ==
    LET providers == IF provider # <<>> THEN provider ELSE list_keys(st, <<>>, F)
    IN  ValidateLoop(st, providers, 1, net, t, F, <<>>)

\* mutant: the verdict of the online validation is not looked at
Gate_FormatOnly(provider, api_key, validate, require_validation, script) ==
    LET format == validate_key_format(provider, api_key)
    IN  IF ~validate THEN <<>>
        ELSE IF ~format.ok THEN <<format.message>>
        ELSE <<>>

\* the gate of update_key and import_from_env: <<>> when the key passes,
\* else the message that is logged
Gate(provider, api_key, validate, require_validation, script) ==
    LET format == validate_key_format(provider, api_key)
        online == validate_key_online(provider, api_key, RetryAttempts, script)
    IN  IF ~validate THEN <<>>
        ELSE IF ~format.ok THEN <<format.message>>
        ELSE IF require_validation /\ ~online.valid THEN <<online.message>>
        ELSE <<>>

update_key(st, provider, api_key, validate, require_validation, script, t, F) ==
    IF Gate(provider, api_key, validate, require_validation, script) # <<>>
    THEN [st |-> st, ok |-> FALSE]
    ELSE _store_key(st, provider, api_key, t, F)

\* mutant: the metadata record is left behind
remove_key_KeepsMetadata(st, provider, F) ==
    IF Fails(F, "delete", provider) \/ KeyringGet(st.secret, provider) = <<>>
    THEN [st |-> st, ok |-> FALSE]
    ELSE [st |-> Store(KeyringDelete(st.secret, provider), st.meta), ok |-> TRUE]

\* mutant: a metadata delete that fails makes the removal fail
remove_key_MetaFailureFails(st, provider, F) ==
    IF Fails(F, "delete", provider) \/ KeyringGet(st.secret, provider) = <<>>
    THEN [st |-> st, ok |-> FALSE]
    ELSE LET sec1 == KeyringDelete(st.secret, provider)
         IN  IF Fails(F, "delete_meta", provider) \/ KeyringGet(st.meta, provider) = <<>>
             THEN [st |-> Store(sec1, st.meta), ok |-> FALSE]
             ELSE [st |-> Store(sec1, KeyringDelete(st.meta, provider)),
                   ok |-> TRUE]

\* keyring.delete_password raises PasswordDeleteError for an entry that does
\* not exist
remove_key(st, provider, F) ==
    IF Fails(F, "delete", provider) \/ KeyringGet(st.secret, provider) = <<>>
    THEN [st |-> st, ok |-> FALSE]
    ELSE LET sec1 == KeyringDelete(st.secret, provider)
         IN  IF Fails(F, "delete_meta", provider) \/ KeyringGet(st.meta, provider) = <<>>
             THEN [st |-> Store(sec1, st.meta), ok |-> TRUE]
             ELSE [st |-> Store(sec1, KeyringDelete(st.meta, provider)),
                   ok |-> TRUE]

\* tokens of import_from_env's filter
ProviderTokens == {openai, anthropic, gemini, perplexity, groq}

_determine_provider_from_key_name(key_name) ==
    LET key_lower == Lower(key_name)
    IN  IF Contains(key_lower, openai) THEN <<openai>>
        ELSE IF Contains(key_lower, anthropic)
                \/ Contains(key_lower, <<"c","l","a","u","d","e">>)
        THEN <<anthropic>>
        ELSE IF Contains(key_lower, gemini)
                \/ Contains(key_lower, <<"g","o","o","g","l","e">>)
        THEN <<gemini>>
        ELSE IF Contains(key_lower, perplexity) THEN <<perplexity>>
        ELSE IF Contains(key_lower, groq) THEN <<groq>>
        ELSE <<>>

\* api_key_vars[provider] = value, on a dict kept as a sequence of items
DictSet(d, provider, value) ==
    IF \E i \in DOMAIN d : d[i].provider = provider
    THEN [i \in DOMAIN d |->
             IF d[i].provider = provider
             THEN [provider |-> provider, api_key |-> value] ELSE d[i]]
    ELSE Append(d, [provider |-> provider, api_key |-> value])

\* the loop that finds the API key variables of the env file
RECURSIVE ApiKeyVars(_, _, _)
ApiKeyVars(env_vars, i, d) ==
    IF i > Len(env_vars) THEN d
    ELSE LET key       == env_vars[i].name
             value     == env_vars[i].value
             key_lower == Lower(key)
             provider  == _determine_provider_from_key_name(key)
         IN  IF /\ value # <<>>
                /\ \E tok \in ProviderTokens : Contains(key_lower, tok)
                /\ \/ Contains(key_lower, <<"a","p","i","_","k","e","y">>)
                   \/ Contains(key_lower, <<"k","e","y">>)
                /\ provider # <<>>
             THEN ApiKeyVars(env_vars, i + 1, DictSet(d, provider[1], value))
             ELSE ApiKeyVars(env_vars, i + 1, d)

\* mutant: a credential that exists is overwritten without force
ImportOne_NoSkip(st, provider, api_key, force, validate, require_validation, script, t, F) ==
    IF Gate(provider, api_key, validate, require_validation, script) # <<>>
    THEN [st |-> st, ok |-> FALSE]
    ELSE _store_key(st, provider, api_key, t, F)

\* the body of import_from_env's loop for one provider
ImportOne(st, provider, api_key, force, validate, require_validation, script, t, F) ==
    IF ~force /\ _key_exists(st, provider, F)
    THEN [st |-> st, ok |-> FALSE]
    ELSE IF Gate(provider, api_key, validate, require_validation, script) # <<>>
    THEN [st |-> st, ok |-> FALSE]
    ELSE _store_key(st, provider, api_key, t, F)

\* mutant: the first entry that is not imported ends the batch
RECURSIVE ImportLoop_Aborts(_, _, _, _, _, _, _, _, _, _)
ImportLoop_Aborts(st, items, i, force, validate, require_validation, net, t, F, count) ==
    IF i > Len(items) THEN [st |-> st, count |-> count]
    ELSE LET one == ImportOne(st, items[i].provider, items[i].api_key, force,
                              validate, require_validation,
                              NetFor(net, items[i].provider), t, F)
         IN  IF one.ok
             THEN ImportLoop_Aborts(one.st, items, i + 1, force, validate,
                                    require_validation, net, t, F, count + 1)
             ELSE [st |-> one.st, count |-> count]

RECURSIVE ImportLoop(_, _, _, _, _, _, _, _, _, _)
ImportLoop(st, items, i, force, validate, require_validation, net, t, F, count) ==
    IF i > Len(items) THEN [st |-> st, count |-> count]
    ELSE LET one == ImportOne(st, items[i].provider, items[i].api_key, force,
                              validate, require_validation,
                              NetFor(net, items[i].provider), t, F)
         IN  ImportLoop(one.st, items, i + 1, force, validate,
                        require_validation, net, t, F,
                        IF one.ok THEN count + 1 ELSE count)

\* import_from_env on the variables dotenv_values read from the file
import_from_env(st, env_vars, force, validate, require_validation, net, t, F) ==
    ImportLoop(st, ApiKeyVars(env_vars, 1, <<>>), 1, force, validate,
               require_validation, net, t, F, 0)

\* mutant: the snapshot carries the credential in the provider field
RECURSIVE BackupKeys_WithSecret(_, _, _, _)
BackupKeys_WithSecret(st, keys, i, F) ==
    IF i > Len(keys) THEN <<>>
    ELSE <<[provider |-> keys[i],
            metadata |-> [_get_key_metadata(st, keys[i], F)
                              EXCEPT !.provider = KeyringGet(st.secret, keys[i])[1]]]>>
         \o BackupKeys_WithSecret(st, keys, i + 1, F)

\* the snapshot backup_metadata writes
RECURSIVE BackupKeys(_, _, _, _)
BackupKeys(st, keys, i, F) ==
    IF i > Len(keys) THEN <<>>
    ELSE <<[provider |-> keys[i],
            metadata |-> _get_key_metadata(st, keys[i], F)]>>
         \o BackupKeys(st, keys, i + 1, F)

backup_metadata(st, t, F) ==
    IF Fails(F, "write_file", <<>>) THEN [file |-> <<>>, ok |-> FALSE]
    ELSE [file |-> <<[timestamp |-> t, version |-> "1.0",
                      keys |-> BackupKeys(st, list_keys(st, <<>>, F), 1, F)]>>,
          ok |-> TRUE]

\* the accounts whose credential an operation fetches from the keyring with
\* get_password: list_keys calls _key_exists for every provider it goes
\* through, and backup_metadata calls list_keys()
SecretsRead_list_keys(provider) ==
    Range(IF provider # <<>> THEN provider ELSE ProviderOrder)

SecretsRead_backup_metadata == SecretsRead_list_keys(<<>>)

\* mutant: metadata is restored whether or not a credential is stored
RECURSIVE RestoreLoop_NoExistenceCheck(_, _, _, _, _)
RestoreLoop_NoExistenceCheck(st, keys_data, i, F, restored_count) ==
    IF i > Len(keys_data) THEN [st |-> st, restored_count |-> restored_count]
    ELSE LET provider == keys_data[i].provider
             upd == _update_key_metadata(st, provider, keys_data[i].metadata, F)
         IN  IF upd.ok
             THEN RestoreLoop_NoExistenceCheck(upd.st, keys_data, i + 1, F,
                                               restored_count + 1)
             ELSE RestoreLoop_NoExistenceCheck(st, keys_data, i + 1, F,
                                               restored_count)

RECURSIVE RestoreLoop(_, _, _, _, _)
RestoreLoop(st, keys_data, i, F, restored_count) ==
    IF i > Len(keys_data) THEN [st |-> st, restored_count |-> restored_count]
    ELSE LET provider == keys_data[i].provider
             upd == _update_key_metadata(st, provider, keys_data[i].metadata, F)
         IN  IF _key_exists(st, provider, F) /\ upd.ok
             THEN RestoreLoop(upd.st, keys_data, i + 1, F, restored_count + 1)
             ELSE RestoreLoop(st, keys_data, i + 1, F, restored_count)

\* restore_metadata: file is <<>> when the backup file cannot be opened
restore_metadata(st, file, F) ==
    IF file = <<>> THEN [st |-> st, restored_count |-> 0, ok |-> FALSE]
    ELSE LET r == RestoreLoop(st, file[1].keys, 1, F, 0)
         IN  [st |-> r.st, restored_count |-> r.restored_count,
              ok |-> r.restored_count > 0]

-----------------------------------------------------------------------------
(* Spec: the Key Manager, one operation at a time, on a keyring that works. *)
(* Every operation takes one tick of the clock.                             *)

keyOpenAI == <<"s","k","-">> \o Rep("a", 48)      \* passes the openai format
keyGemini == <<"A","I","z","a">> \o Rep("b", 35)  \* passes the gemini format
keyShort  == <<"s","k","-">> \o Rep("a", 10)      \* passes no format

Keys == {keyOpenAI, keyGemini, keyShort}

EnvVar(name, value) == [name |-> name, value |-> value]

envBoth ==
    <<EnvVar(<<"O","P","E","N","A","I","_","A","P","I","_","K","E","Y">>, keyOpenAI),
      EnvVar(<<"G","E","M","I","N","I","_","A","P","I","_","K","E","Y">>, keyGemini)>>

envMixed ==
    <<EnvVar(<<"O","P","E","N","A","I","_","A","P","I","_","K","E","Y">>, keyShort),
      EnvVar(<<"G","O","O","G","L","E","_","G","E","M","I","N","I","_","K","E","Y">>, keyGemini),
      EnvVar(<<"D","E","B","U","G">>, <<"1">>)>>

EnvFiles == {envBoth, envMixed}

\* what the network answers to the three attempts of a validation
NetScripts == {<<connError, ok200, ok200>>, <<s401, s401, s401>>}

\* the networks that differ for the probes of the providers in provs
NetsFor(provs) == [{Lower(p) : p \in provs} \cap Probed -> NetScripts]

\* (validate, require_validation): no gate, the format gate, both gates
GateModes == {<<FALSE, TRUE>>, <<TRUE, FALSE>>, <<TRUE, TRUE>>}

\* the networks that differ for an operation gated by mode
GateNets(mode, provs) ==
    IF mode[1] /\ mode[2] THEN NetsFor(provs) ELSE NetsFor({})

\* a keyring on which no call fails
NoFault == {}

Current == Store(secret, meta)

\* the operation completed: its effect on the keyring and what it returned
Completes(st, r) ==
    /\ now < MaxClock
    /\ now' = now + 1
    /\ before' = Current
    /\ secret' = st.secret
    /\ meta' = st.meta
    /\ ret' = r
    /\ UNCHANGED <<onl, call, pure, config_file, runs>>

UpdateKey(provider, api_key, validate, require_validation, script, F) ==
    LET r == update_key(Current, provider, api_key, validate,
                        require_validation, script, now, F)
    IN  /\ Completes(r.st, Ret("update_key", <<provider>>, r.ok, 0, <<>>))
        /\ UNCHANGED backup_file

ImportFromEnv(env_vars, force, validate, require_validation, net, F) ==
    LET r == import_from_env(Current, env_vars, force, validate,
                             require_validation, net, now, F)
    IN  /\ Completes(r.st, Ret("import_from_env", <<>>, FALSE, r.count, <<>>))
        /\ UNCHANGED backup_file

ValidateKeys(provider, net, F) ==
    LET r == validate_keys(Current, provider, net, now, F)
    IN  /\ Completes(r.st, Ret("validate_keys", provider, FALSE, 0, r.results))
        /\ UNCHANGED backup_file

RemoveKey(provider, F) ==
    LET r == remove_key(Current, provider, F)
    IN  /\ Completes(r.st, Ret("remove_key", <<provider>>, r.ok, 0, <<>>))
        /\ UNCHANGED backup_file

BackupMetadata(F) ==
    LET r == backup_metadata(Current, now, F)
    IN  /\ Completes(Current, Ret("backup_metadata", <<>>, r.ok, 0, <<>>))
        /\ backup_file' = IF r.ok THEN r.file ELSE backup_file

RestoreMetadata(F) ==
    LET r == restore_metadata(Current, backup_file, F)
    IN  /\ Completes(r.st, Ret("restore_metadata", <<>>, r.ok, 0, <<>>))
        /\ UNCHANGED backup_file

Next ==
    \/ \E provider \in Callers, api_key \in Keys, mode \in GateModes :
          \E net \in GateNets(mode, {provider}) :
              UpdateKey(provider, api_key, mode[1], mode[2],
                        NetFor(net, provider), NoFault)
    \/ \E env_vars \in EnvFiles, force \in BOOLEAN, mode \in GateModes :
          \E net \in GateNets(mode, {openai, gemini}) :
              ImportFromEnv(env_vars, force, mode[1], mode[2], net, NoFault)
    \/ \E provider \in Callers : \E net \in NetsFor({provider}) :
          ValidateKeys(<<provider>>, net, NoFault)
    \/ \E net \in NetsFor({openai, gemini}) : ValidateKeys(<<>>, net, NoFault)
    \/ \E provider \in Callers : RemoveKey(provider, NoFault)
    \/ BackupMetadata(NoFault)
    \/ RestoreMetadata(NoFault)

Spec == Init /\ [][Next]_vars

-----------------------------------------------------------------------------
(* Claims about the Key Manager, checked under Spec *)

HasSecret(st, a) == KeyringGet(st.secret, a) # <<>>
HasMeta(st, a) == KeyringGet(st.meta, a) # <<>>
MetaOf(st, a) == KeyringGet(st.meta, a)[1]

\* C1: after every completed operation on a keyring that works, a metadata
\* record exists for an account exactly when a credential is stored for it.
C1_MetadataIffCredential ==
    \A a \in Accounts : HasMeta(Current, a) <=> HasSecret(Current, a)

\* a credential and its metadata were removed while another account keeps both
C1_Witness ==
    /\ ret.op = "remove_key"
    /\ ret.ok
    /\ \E a \in Accounts :
           HasSecret(before, a) /\ ~HasSecret(Current, a) /\ ~HasMeta(Current, a)
    /\ \E a \in Accounts : HasSecret(Current, a) /\ HasMeta(Current, a)

\* the result entries of the validate_keys call that completed last
Entries == {ret.results[i] : i \in DOMAIN ret.results}

\* the entries of credentials that were stored when validate_keys started
ValidatedStored ==
    IF ret.op = "validate_keys"
    THEN {e \in Entries : HasSecret(before, e.provider)}
    ELSE {}

\* the metadata of e's provider records e's verdict at the time of the call
RecordsVerdict(e) ==
    /\ HasMeta(Current, e.provider)
    /\ MetaOf(Current, e.provider).last_validated = <<now - 1>>
    /\ MetaOf(Current, e.provider).validation_status =
           IF e.valid THEN "valid" ELSE "invalid"

\* C9 as stated: validate_keys sets last-validated and status in the
\* metadata of every stored credential it validates, whatever the outcome,
\* a format failure included.
C9_MetadataUpdatedRegardless ==
    \A e \in ValidatedStored : RecordsVerdict(e)

\* C10: after validate_keys ran online validation for a stored credential,
\* the status in its metadata is valid exactly when the verdict is valid and
\* invalid otherwise, whatever it was before; and validate_keys never turns
\* a status that was valid or invalid into anything else.
C10_StatusFollowsVerdict ==
    /\ \A e \in ValidatedStored : e.has_details => RecordsVerdict(e)
    /\ ret.op = "validate_keys" =>
           \A a \in Accounts :
               ( /\ HasMeta(before, a)
                 /\ MetaOf(before, a).validation_status \in {"valid", "invalid"} )
               => /\ HasMeta(Current, a)
                  /\ MetaOf(Current, a).validation_status \in {"valid", "invalid"}

\* a credential whose status was valid is validated again and found invalid
C10_Witness ==
    \E e \in ValidatedStored :
        /\ e.has_details
        /\ ~e.valid
        /\ MetaOf(before, e.provider).validation_status = "valid"
        /\ MetaOf(Current, e.provider).validation_status = "invalid"

-----------------------------------------------------------------------------
(* SpecCall: one Key Manager operation, with its arguments recorded, on the *)
(* keyring as earlier sessions left it.  The keyring outlives the process:  *)
(* a session starts on whatever a history of earlier operations, each one   *)
(* session of the command line tool, stored in it.                          *)

MaxHistory == 3     \* longest history of earlier operations

\* a session: the keyring, the backup file and the clock
Session(st, file, t) == [st |-> st, file |-> file, now |-> t]

\* what the operation with arguments a returns and leaves, on session s
Run(s, a) ==
    IF a.op = "update_key"
    THEN update_key(s.st, a.provider[1], a.api_key, a.validate,
                    a.require_validation, NetFor(a.net, a.provider[1]),
                    s.now, a.F)
    ELSE IF a.op = "import_from_env"
    THEN import_from_env(s.st, a.env_vars, a.force, a.validate,
                         a.require_validation, a.net, s.now, a.F)
    ELSE IF a.op = "validate_keys"
    THEN validate_keys(s.st, a.provider, a.net, s.now, a.F)
    ELSE IF a.op = "remove_key"
    THEN remove_key(s.st, a.provider[1], a.F)
    ELSE IF a.op = "backup_metadata"
    THEN backup_metadata(s.st, s.now, a.F)
    ELSE restore_metadata(s.st, s.file, a.F)

\* the session after the operation with arguments a gave r, at time t
Then(s, a, r, t) ==
    Session(IF a.op = "backup_metadata" THEN s.st ELSE r.st,
            IF a.op = "backup_metadata" /\ r.ok THEN r.file ELSE s.file,
            t)

\* the arguments of each operation
UpdateArgs(provider, api_key, validate, require_validation, net, F) ==
    Args("update_key", <<provider>>, api_key, <<>>, FALSE, validate,
         require_validation, net, F)
ImportArgs(env_vars, force, validate, require_validation, net, F) ==
    Args("import_from_env", <<>>, <<>>, env_vars, force, validate,
         require_validation, net, F)
ValidateArgs(provider, net, F) ==
    Args("validate_keys", provider, <<>>, <<>>, FALSE, FALSE, FALSE, net, F)
RemoveArgs(provider, F) ==
    Args("remove_key", <<provider>>, <<>>, <<>>, FALSE, FALSE, FALSE, <<>>, F)
BackupArgs(F) ==
    Args("backup_metadata", <<>>, <<>>, <<>>, FALSE, FALSE, FALSE, <<>>, F)
RestoreArgs(F) ==
    Args("restore_metadata", <<>>, <<>>, <<>>, FALSE, FALSE, FALSE, <<>>, F)

\* networks of the earlier sessions: every probe answered, and gemini
\* refusing the key
netGood == [p \in {openai, gemini} |-> <<connError, ok200, ok200>>]
netGeminiBad == [netGood EXCEPT ![gemini] = <<s401, s401, s401>>]

\* the operations of the earlier sessions
HistoryOps ==
    { UpdateArgs(openai, keyOpenAI, FALSE, TRUE, <<>>, NoFault),
      ImportArgs(envBoth, TRUE, FALSE, TRUE, <<>>, NoFault),
      ValidateArgs(<<>>, netGood, NoFault),
      ValidateArgs(<<>>, netGeminiBad, NoFault),
      RemoveArgs(gemini, NoFault),
      BackupArgs(NoFault) }

Histories == UNION {[1..n -> HistoryOps] : n \in 0..MaxHistory}

EmptyKeyring == Store([a \in Accounts |-> <<>>], [a \in Accounts |-> <<>>])

\* the session the operations h[i..] leave, started on s
RECURSIVE RunHistory(_, _, _)
RunHistory(s, h, i) ==
    IF i > Len(h) THEN s
    ELSE RunHistory(Then(s, h[i], Run(s, h[i]), s.now + 1), h, i + 1)

\* the sessions a history of earlier operations can leave
Sessions == {RunHistory(Session(EmptyKeyring, <<>>, 0), h, 1) : h \in Histories}

InitCall ==
    /\ onl = NoCall
    /\ \E s \in Sessions :
           /\ secret = s.st.secret
           /\ meta = s.st.meta
           /\ backup_file = s.file
           /\ now = s.now
           /\ before = s.st
    /\ ret = NoRet
    /\ call = NoArgs
    /\ pure = NoPure
    /\ config_file = "user"
    /\ runs = NoRuns

\* the one operation of the session completed: the keyring and the backup
\* file it leaves, and what it returned
Returns(st, file, r) ==
    /\ call.op = "none"
    /\ before' = Current
    /\ secret' = st.secret
    /\ meta' = st.meta
    /\ backup_file' = file
    /\ ret' = r
    /\ now' = now + 1
    /\ UNCHANGED <<onl, pure, config_file, runs>>

CallUpdateKey(provider, api_key, validate, require_validation, net, F) ==
    LET r == update_key(Current, provider, api_key, validate,
                        require_validation, NetFor(net, provider), now, F)
    IN  /\ Returns(r.st, backup_file,
                   Ret("update_key", <<provider>>, r.ok, 0, <<>>))
        /\ call' = UpdateArgs(provider, api_key, validate,
                              require_validation, net, F)

CallImportFromEnv(env_vars, force, validate, require_validation, net, F) ==
    LET r == import_from_env(Current, env_vars, force, validate,
                             require_validation, net, now, F)
    IN  /\ Returns(r.st, backup_file,
                   Ret("import_from_env", <<>>, FALSE, r.count, <<>>))
        /\ call' = ImportArgs(env_vars, force, validate,
                              require_validation, net, F)

CallValidateKeys(provider, net, F) ==
    LET r == validate_keys(Current, provider, net, now, F)
    IN  /\ Returns(r.st, backup_file,
                   Ret("validate_keys", provider, FALSE, 0, r.results))
        /\ call' = ValidateArgs(provider, net, F)

CallRemoveKey(provider, F) ==
    LET r == remove_key(Current, provider, F)
    IN  /\ Returns(r.st, backup_file,
                   Ret("remove_key", <<provider>>, r.ok, 0, <<>>))
        /\ call' = RemoveArgs(provider, F)

CallBackupMetadata(F) ==
    LET r == backup_metadata(Current, now, F)
    IN  /\ Returns(Current, IF r.ok THEN r.file ELSE backup_file,
                   Ret("backup_metadata", <<>>, r.ok, 0, <<>>))
        /\ call' = BackupArgs(F)

CallRestoreMetadata(F) ==
    LET r == restore_metadata(Current, backup_file, F)
    IN  /\ Returns(r.st, backup_file,
                   Ret("restore_metadata", <<>>, r.ok, 0, <<>>))
        /\ call' = RestoreArgs(F)

\* variable names of env files
OPENAI_API_KEY == <<"O","P","E","N","A","I","_","A","P","I","_","K","E","Y">>
GEMINI_API_KEY == <<"G","E","M","I","N","I","_","A","P","I","_","K","E","Y">>
ANTHROPIC_API_KEY ==
    <<"A","N","T","H","R","O","P","I","C","_","A","P","I","_","K","E","Y">>
PERPLEXITY_KEY == <<"P","E","R","P","L","E","X","I","T","Y","_","K","E","Y">>
GROQ_API_KEY == <<"G","R","O","Q","_","A","P","I","_","K","E","Y">>
CLAUDE_API_KEY == <<"C","L","A","U","D","E","_","A","P","I","_","K","E","Y">>
GOOGLE_API_KEY == <<"G","O","O","G","L","E","_","A","P","I","_","K","E","Y">>
MISTRAL_API_KEY == <<"M","I","S","T","R","A","L","_","A","P","I","_","K","E","Y">>
OPENAI_ORG == <<"O","P","E","N","A","I","_","O","R","G">>

keyAnthropic == <<"s","k","-","a","n","t","-">> \o Rep("c", 93)
keyOther == <<"k","-">> \o Rep("d", 30)

\* the other three providers, a provider without a token, and a name that
\* is not key-shaped
envOthers ==
    <<EnvVar(ANTHROPIC_API_KEY, keyAnthropic), EnvVar(PERPLEXITY_KEY, keyOther),
      EnvVar(GROQ_API_KEY, keyOther), EnvVar(MISTRAL_API_KEY, keyOther),
      EnvVar(OPENAI_ORG, keyOther)>>

\* names that carry only the tokens claude and google, and an empty value
envAlias ==
    <<EnvVar(CLAUDE_API_KEY, keyAnthropic), EnvVar(GOOGLE_API_KEY, keyGemini),
      EnvVar(OPENAI_API_KEY, <<>>)>>

CallEnvFiles == {envBoth, envMixed, envOthers, envAlias}

\* the keyring calls that can raise in an operation on the accounts provs
FaultsOf(kinds, provs) ==
    {NoFault} \cup {{<<k, p>>} : k \in kinds, p \in provs}

\* the faults tried with mode: the keyring fails only in ungated calls
GateFaults(mode, kinds, provs) ==
    IF mode[1] THEN {NoFault} ELSE FaultsOf(kinds, provs)

\* the network is down for every probe of the providers in provs: the last
\* attempt ends in a connection error
netDown(provs) ==
    [p \in {Lower(q) : q \in provs} \cap Probed |->
         <<timedOut, connError, connError>>]

\* the networks tried for one provider's probes
CallNetsFor(provs) == NetsFor(provs) \cup {netDown(provs)}

CallGateNets(mode, provs) ==
    IF mode[1] /\ mode[2] THEN CallNetsFor(provs) ELSE NetsFor({})

NextCall ==
    \/ \E provider \in Callers, api_key \in Keys, mode \in GateModes :
          \E net \in CallGateNets(mode, {provider}),
             F \in GateFaults(mode, {"set", "set_meta"}, {provider}) :
              CallUpdateKey(provider, api_key, mode[1], mode[2], net, F)
    \/ \E env_vars \in CallEnvFiles, force \in BOOLEAN, mode \in GateModes :
          \E net \in GateNets(mode, {openai, gemini}),
             F \in GateFaults(mode, {"get", "set", "set_meta"}, {openai, gemini}) :
              CallImportFromEnv(env_vars, force, mode[1], mode[2], net, F)
    \/ \E provider \in Callers : \E net \in CallNetsFor({provider}) :
          \E F \in FaultsOf({"get", "get_meta", "set_meta"}, {provider}) :
              CallValidateKeys(<<provider>>, net, F)
    \/ \E net \in CallNetsFor({openai, gemini}) :
          CallValidateKeys(<<>>, net, NoFault)
    \/ \E provider \in Callers :
          \E F \in FaultsOf({"delete", "delete_meta"}, {provider}) :
              CallRemoveKey(provider, F)
    \/ \E F \in FaultsOf({"write_file"}, {<<>>}) : CallBackupMetadata(F)
    \/ \E F \in FaultsOf({"get", "set_meta"}, {openai}) : CallRestoreMetadata(F)

SpecCall == InitCall /\ [][NextCall]_vars

-----------------------------------------------------------------------------
(* Claims about single operations, checked under SpecCall *)

\* the provider the operation was called for
Target == call.provider[1]

\* the call was update_key for a provider that had a credential and its
\* metadata record
UpdatesStored ==
    /\ call.op = "update_key"
    /\ HasSecret(before, Target)
    /\ HasMeta(before, Target)

\* C11 as stated: after a successful update_key of a provider that already
\* had a credential, created_at of its metadata equals its value before the
\* update.
C11_CreatedAtUntouched ==
    (UpdatesStored /\ ret.ok) =>
        /\ HasMeta(Current, Target)
        /\ MetaOf(Current, Target).created_at = MetaOf(before, Target).created_at

Candidates ==
    IF call.op = "import_from_env" THEN ApiKeyVars(call.env_vars, 1, <<>>)
    ELSE <<>>

\* the validation gate of the call refuses api_key for provider: validation
\* is enabled and the format check fails, or online validation is required
\* and answers invalid
Rejected(provider, api_key) ==
    /\ call.validate
    /\ \/ ~validate_key_format(provider, api_key).ok
       \/ /\ call.require_validation
          /\ ~validate_key_online(provider, api_key, RetryAttempts,
                                  NetFor(call.net, provider)).valid

\* the keyring entries of account a are as they were before the call
Untouched(a) ==
    /\ secret[a] = before.secret[a]
    /\ meta[a] = before.meta[a]

\* C13: with validation enabled, a key that fails format validation, or
\* (with security.require_validation) whose online validation answers
\* invalid, is never written: update_key leaves the whole store unchanged
\* and returns False; import_from_env leaves the entries of that provider
\* unchanged and does not count the entry.
C13_RejectedKeyNotWritten ==
    /\ (call.op = "update_key" /\ Rejected(Target, call.api_key)) =>
           /\ Current = before
           /\ ~ret.ok
    /\ call.op = "import_from_env" =>
           /\ \A i \in DOMAIN Candidates :
                  Rejected(Candidates[i].provider, Candidates[i].api_key) =>
                      Untouched(Candidates[i].provider)
           /\ ret.count <=
                  Cardinality({i \in DOMAIN Candidates :
                      ~Rejected(Candidates[i].provider, Candidates[i].api_key)})

\* an import in which a well-formed key is refused by the online validation
\* and left out, while another entry is stored and counted
C13_Witness ==
    /\ call.op = "import_from_env"
    /\ call.require_validation
    /\ ret.count = 1
    /\ \E i \in DOMAIN Candidates :
           /\ validate_key_format(Candidates[i].provider, Candidates[i].api_key).ok
           /\ Rejected(Candidates[i].provider, Candidates[i].api_key)
           /\ ~HasSecret(Current, Candidates[i].provider)
    /\ \E i \in DOMAIN Candidates :
           /\ ~HasSecret(before, Candidates[i].provider)
           /\ secret[Candidates[i].provider] = <<Candidates[i].api_key>>

\* account a got its first credential in the call, and the keyring took its
\* metadata record
FirstStored(a) ==
    /\ call.op \in {"update_key", "import_from_env"}
    /\ ~HasSecret(before, a)
    /\ HasSecret(Current, a)
    /\ ~Fails(call.F, "set_meta", a)

\* C14: a credential stored for the first time, by update_key or by
\* import_from_env, gets a metadata record with status unknown, last-validated
\* null and the time of the store as created_at, also when the online
\* validation of the gate passed.
C14_FirstStoreUnknown ==
    \A a \in Accounts :
        FirstStored(a) =>
            /\ HasMeta(Current, a)
            /\ MetaOf(Current, a) = NewMetadata(a, now - 1)
            /\ MetaOf(Current, a).validation_status = "unknown"
            /\ MetaOf(Current, a).last_validated = <<>>

\* a first credential stored by update_key after its key passed the online
\* validation of the gate
C14_Witness ==
    /\ call.op = "update_key"
    /\ call.validate
    /\ call.require_validation
    /\ Lower(Target) \in Probed
    /\ ret.ok
    /\ FirstStored(Target)
    /\ MetaOf(Current, Target).validation_status = "unknown"

\* the entry passes the gate of the call and the keyring takes it
Storable(provider, api_key) ==
    /\ ~Rejected(provider, api_key)
    /\ ~Fails(call.F, "set", provider)
    /\ ~Fails(call.F, "set_meta", provider)

\* C15: import_from_env with force=false skips an entry whose provider has
\* a credential the keyring can read (secret and metadata unchanged, entry
\* not counted); with force=true every entry that passes the gate and that
\* the keyring takes overwrites the stored credential with its value, and
\* the count is the number of those entries.
C15_ForceOverwrites ==
    call.op = "import_from_env" =>
        /\ ~call.force =>
               /\ \A i \in DOMAIN Candidates :
                      _key_exists(before, Candidates[i].provider, call.F) =>
                          Untouched(Candidates[i].provider)
               /\ ret.count <=
                      Cardinality({i \in DOMAIN Candidates :
                          ~_key_exists(before, Candidates[i].provider, call.F)})
        /\ call.force =>
               /\ \A i \in DOMAIN Candidates :
                      Storable(Candidates[i].provider, Candidates[i].api_key) =>
                          secret[Candidates[i].provider] = <<Candidates[i].api_key>>
               /\ ret.count =
                      Cardinality({i \in DOMAIN Candidates :
                          Storable(Candidates[i].provider, Candidates[i].api_key)})

\* a forced import replaces a stored credential by another value and counts it
C15_Witness ==
    /\ call.op = "import_from_env"
    /\ call.force
    /\ ret.count >= 1
    /\ \E i \in DOMAIN Candidates :
           /\ HasSecret(before, Candidates[i].provider)
           /\ before.secret[Candidates[i].provider] # <<Candidates[i].api_key>>
           /\ secret[Candidates[i].provider] = <<Candidates[i].api_key>>

\* entry i of the import is stored: it is not skipped as existing, it passes
\* the gate and the keyring takes it
Imported(i) ==
    /\ call.force \/ ~_key_exists(before, Candidates[i].provider, call.F)
    /\ Storable(Candidates[i].provider, Candidates[i].api_key)

\* C16: in import_from_env every candidate entry is processed whatever
\* happened to the entries before it: an entry is stored exactly when it is
\* not skipped as existing, passes the gate and the keyring takes it, and
\* the returned count is the number of entries stored.
C16_BatchNeverAborts ==
    call.op = "import_from_env" =>
        /\ \A i \in DOMAIN Candidates :
               Imported(i) =>
                   /\ secret[Candidates[i].provider] = <<Candidates[i].api_key>>
                   /\ meta[Candidates[i].provider] =
                          <<NewMetadata(Candidates[i].provider, now - 1)>>
        /\ \A i \in DOMAIN Candidates :
               (~Imported(i) /\ ~Fails(call.F, "set_meta", Candidates[i].provider))
                   => Untouched(Candidates[i].provider)
        /\ ret.count = Cardinality({i \in DOMAIN Candidates : Imported(i)})

\* the keyring refuses the first entry of an import and the second entry is
\* stored and counted
C16_Witness ==
    /\ call.op = "import_from_env"
    /\ Len(Candidates) = 2
    /\ Fails(call.F, "set", Candidates[1].provider)
    /\ ~HasSecret(Current, Candidates[1].provider)
    /\ ~HasSecret(before, Candidates[2].provider)
    /\ secret[Candidates[2].provider] = <<Candidates[2].api_key>>
    /\ ret.count = 1

\* the name is key-shaped: it contains "key"
KeyShaped(name) == Contains(Lower(name), <<"k","e","y">>)

\* every entry is stored when it is found: a forced import without
\* validation on a keyring that works
ImportsAll ==
    /\ call.op = "import_from_env"
    /\ call.force
    /\ ~call.validate
    /\ call.F = NoFault

\* C17 as stated: import_from_env infers the provider of a key-shaped entry
\* by substring match of its name against the tokens openai, anthropic or
\* claude, gemini or google, perplexity and groq, so that an entry whose
\* name carries only claude (or only google) is imported as anthropic (or
\* gemini); entries matching no token are skipped.
C17_AliasesImported ==
    ImportsAll =>
        /\ \A i \in DOMAIN call.env_vars :
               LET name == call.env_vars[i].name
                   provider == _determine_provider_from_key_name(name)
               IN  ( /\ call.env_vars[i].value # <<>>
                     /\ KeyShaped(name)
                     /\ provider # <<>> )
                   => /\ HasSecret(Current, provider[1])
                      /\ \E j \in DOMAIN call.env_vars :
                             secret[provider[1]] = <<call.env_vars[j].value>>
        /\ \A a \in Accounts :
               secret[a] # before.secret[a] =>
                   \E i \in DOMAIN call.env_vars :
                       _determine_provider_from_key_name(call.env_vars[i].name)
                           = <<a>>

\* the keyring of the call with a credential stored for its provider
WithCredential == _store_key(before, Target, keyOpenAI, 0, NoFault).st

\* C18 as stated: remove_key of a provider with no stored credential leaves
\* the store unchanged, removing again changes nothing, and what it returns
\* differs both from what a successful deletion returns and from what a
\* deletion that the keyring refuses returns.
C18_AbsentRemovalDistinct ==
    ( /\ call.op = "remove_key"
      /\ call.F = NoFault
      /\ ~HasSecret(before, Target) )
    => /\ Current = before
       /\ remove_key(Current, Target, NoFault).st = Current
       /\ ret.ok # remove_key(WithCredential, Target, NoFault).ok
       /\ ret.ok # remove_key(WithCredential, Target,
                              {<<"delete", Target>>}).ok

\* the call was remove_key for a provider that had a credential
RemovesStored ==
    /\ call.op = "remove_key"
    /\ HasSecret(before, Target)

\* C19: remove_key of a stored credential deletes the secret and then the
\* metadata: when the secret delete raises it returns False and nothing is
\* deleted; otherwise the secret is gone and it returns True, also when the
\* metadata delete raises and the metadata record stays.
C19_MetadataDeleteBestEffort ==
    RemovesStored =>
        /\ Fails(call.F, "delete", Target) =>
               /\ ~ret.ok
               /\ Current = before
        /\ ~Fails(call.F, "delete", Target) =>
               /\ ret.ok
               /\ ~HasSecret(Current, Target)
               /\ \A a \in Accounts \ {Target} : Untouched(a)
               /\ IF Fails(call.F, "delete_meta", Target)
                  THEN meta[Target] = before.meta[Target]
                  ELSE ~HasMeta(Current, Target)

\* the metadata delete raises after the secret was deleted, and remove_key
\* returns True
C19_Witness ==
    /\ RemovesStored
    /\ Fails(call.F, "delete_meta", Target)
    /\ ret.ok
    /\ ~HasSecret(Current, Target)
    /\ HasMeta(Current, Target)

\* the records of the backup file the call read: provider and metadata
BackedUp ==
    IF call.op = "restore_metadata" /\ backup_file # <<>>
    THEN backup_file[1].keys
    ELSE <<>>

\* record i of the backup is restored: its provider has a credential the
\* keyring can read, and the keyring takes the metadata
Restored(i) ==
    /\ _key_exists(before, BackedUp[i].provider, call.F)
    /\ ~Fails(call.F, "set_meta", BackedUp[i].provider)

\* C20 as stated: restore_metadata writes a backed-up record only for
\* providers that have a stored credential, creates no metadata for a
\* provider without one, and returns to the caller the number of records
\* restored.
C20_ReportsCount ==
    call.op = "restore_metadata" =>
        /\ \A a \in Accounts : ~HasSecret(before, a) => Untouched(a)
        /\ ret.count = Cardinality({i \in DOMAIN BackedUp : Restored(i)})

\* C20: restore_metadata writes a backed-up record for exactly the providers
\* of the backup that have a stored credential (and whose metadata the
\* keyring takes), leaves every other entry of the keyring as it was, and
\* returns True exactly when at least one record was restored, False
\* otherwise.
C20_RestoresOnlyStored ==
    call.op = "restore_metadata" =>
        /\ secret = before.secret
        /\ \A i \in DOMAIN BackedUp :
               Restored(i) =>
                   meta[BackedUp[i].provider] = <<BackedUp[i].metadata>>
        /\ \A a \in Accounts :
               (\A i \in DOMAIN BackedUp :
                    BackedUp[i].provider = a => ~Restored(i))
               => Untouched(a)
        /\ \A a \in Accounts : ~HasSecret(before, a) => Untouched(a)
        /\ ret.ok <=> (\E i \in DOMAIN BackedUp : Restored(i))

\* a restore that writes the record of a provider with a credential and
\* skips the record of a provider whose credential was removed
C20_Witness ==
    /\ call.op = "restore_metadata"
    /\ ret.ok
    /\ \E i \in DOMAIN BackedUp : Restored(i)
    /\ \E i \in DOMAIN BackedUp :
           /\ ~HasSecret(before, BackedUp[i].provider)
           /\ ~HasMeta(Current, BackedUp[i].provider)

-----------------------------------------------------------------------------
(* SpecTrip: a backup, then removals and stores of credentials, then the    *)
(* restore of the backup.  The session starts as in SpecCall; before is the *)
(* keyring before the last operation and call the last operation.           *)

\* the operations between the backup and its restore
MaxTrip == 3

\* a key stored after the backup
keyRotated == <<"s","k","-">> \o Rep("r", 48)

\* the providers whose credentials the trip removes and stores
TripProviders == {openai, gemini}

\* an operation of the trip completed
TripStep(st, file, r) ==
    /\ before' = Current
    /\ secret' = st.secret
    /\ meta' = st.meta
    /\ backup_file' = file
    /\ ret' = r
    /\ now' = now + 1
    /\ UNCHANGED <<onl, pure, config_file, runs>>

\* the backup was taken and not yet restored, and the trip may go on
TripOpen ==
    /\ call.op \in {"backup_metadata", "remove_key", "update_key"}
    /\ backup_file # <<>>
    /\ now - backup_file[1].timestamp <= MaxTrip

TripBackup ==
    LET r == backup_metadata(Current, now, NoFault)
    IN  /\ call.op = "none"
        /\ TripStep(Current, r.file,
                    Ret("backup_metadata", <<>>, r.ok, 0, <<>>))
        /\ call' = BackupArgs(NoFault)

TripRemove(provider) ==
    LET r == remove_key(Current, provider, NoFault)
    IN  /\ TripOpen
        /\ TripStep(r.st, backup_file,
                    Ret("remove_key", <<provider>>, r.ok, 0, <<>>))
        /\ call' = RemoveArgs(provider, NoFault)

TripStore(provider, api_key) ==
    LET r == update_key(Current, provider, api_key, FALSE, TRUE, <<>>, now,
                        NoFault)
    IN  /\ TripOpen
        /\ TripStep(r.st, backup_file,
                    Ret("update_key", <<provider>>, r.ok, 0, <<>>))
        /\ call' = UpdateArgs(provider, api_key, FALSE, TRUE, <<>>, NoFault)

TripRestore ==
    LET r == restore_metadata(Current, backup_file, NoFault)
    IN  /\ call.op \in {"backup_metadata", "remove_key", "update_key"}
        /\ TripStep(r.st, backup_file,
                    Ret("restore_metadata", <<>>, r.ok, 0, <<>>))
        /\ call' = RestoreArgs(NoFault)

NextTrip ==
    \/ TripBackup
    \/ \E provider \in TripProviders : TripRemove(provider)
    \/ \E provider \in TripProviders : TripStore(provider, keyRotated)
    \/ TripRestore

SpecTrip == InitCall /\ [][NextTrip]_vars

\* the providers of the backup that have a credential when it is restored
RestoredSet ==
    {BackedUp[i].provider : i \in {j \in DOMAIN BackedUp :
                                      HasSecret(before, BackedUp[j].provider)}}

\* C21: when a backup is restored after credentials were removed and some
\* of them stored again, every provider of the backup that has a credential
\* gets exactly its backed-up metadata record (status, created_at,
\* last_validated), every provider of the backup without a credential has no
\* metadata, the number of records the restore counts is the number of
\* providers restored, and it returns True exactly when that number is
\* positive.
C21_RoundTrip ==
    call.op = "restore_metadata" =>
        /\ \A i \in DOMAIN BackedUp :
               LET p == BackedUp[i].provider
               IN  IF HasSecret(before, p)
                   THEN meta[p] = <<BackedUp[i].metadata>>
                   ELSE meta[p] = <<>>
        /\ restore_metadata(before, backup_file, call.F).restored_count =
               Cardinality(RestoredSet)
        /\ ret.ok <=> Cardinality(RestoredSet) > 0

\* the backup holds openai as valid and gemini as invalid; the credential
\* of openai was stored again after the backup and gemini has none; the
\* restore gives openai its backed-up record and counts one record
C21_Witness ==
    /\ call.op = "restore_metadata"
    /\ \E i, j \in DOMAIN BackedUp :
           /\ BackedUp[i].provider = openai
           /\ BackedUp[i].metadata.validation_status = "valid"
           /\ BackedUp[j].provider = gemini
           /\ BackedUp[j].metadata.validation_status = "invalid"
           /\ meta[openai] = <<BackedUp[i].metadata>>
    /\ before.secret[openai] = <<keyRotated>>
    /\ MetaOf(before, openai).validation_status = "unknown"
    /\ MetaOf(before, openai).created_at[1] > backup_file[1].timestamp
    /\ ~HasSecret(before, gemini)
    /\ ~HasMeta(Current, gemini)
    /\ restore_metadata(before, backup_file, call.F).restored_count = 1
    /\ ret.ok

-----------------------------------------------------------------------------
(* Claims about the backup, checked under Spec *)

\* the records of the snapshot the last backup wrote
Snapshot == IF backup_file = <<>> THEN <<>> ELSE backup_file[1].keys

\* the configured providers that had a credential before the operation
Listed == {p \in Range(ProviderOrder) : HasSecret(before, p)}

\* the keyring with every credential replaced by the same string
Blinded(st) ==
    Store([a \in DOMAIN st.secret |->
               IF st.secret[a] = <<>> THEN <<>> ELSE <<<<"x">>>>],
          st.meta)

-----------------------------------------------------------------------------
(* SpecPure: one call of format_key_for_display or of validate_key_format,  *)
(* with the arguments drawn before the call.                                *)

\* the longest key of one character repeated that is displayed
MaxKeyLen == 12

\* key[:n]
Take(key, n) == SubSeq(key, 1, IF n < Len(key) THEN n ELSE Len(key))

\* key[-n:]
Last(key, n) ==
    SubSeq(key, IF n < Len(key) THEN Len(key) - n + 1 ELSE 1, Len(key))

\* mutant: a short key is displayed like a long one
format_key_for_display_NoMask(key, reveal) ==
    IF reveal THEN key
    ELSE Take(key, 4) \o <<".",".",".">> \o Last(key, 4)

format_key_for_display(key, reveal) ==
    IF reveal THEN key
    ELSE IF Len(key) <= 8 THEN <<"*","*","*","*">>
    ELSE Take(key, 4) \o <<".",".",".">> \o Last(key, 4)

\* what load_config finds at the default path: no directory, no file, the
\* user's configuration (Providers), the defaults save_config wrote, or a
\* file that is not JSON
FileStates == {"nodir", "absent", "user", "default", "corrupt"}

\* load_config(): the directory is made, a file that reads is merged over
\* the defaults and left alone, and otherwise the defaults are written
load_config(file) ==
    IF file = "user" THEN [providers |-> Providers, file |-> "user"]
    ELSE [providers |-> DefaultProviders, file |-> "default"]

\* validate_key_format(provider, key): config is None, the registry is
\* the one load_config returns
validate_key_format_NoConfig(file, provider, key) ==
    IF Lower(provider) \in DOMAIN load_config(file).providers
    THEN validate_key_format(provider, key)
    ELSE FormatResult(FALSE, <<"Unknown provider: ">> \o provider)

spec_example == <<"a","b","c","d","1","2","3","4","5","6","7","8">>

DisplayKeys ==
    {Rep(c, n) : c \in {"a", "Z", "*"}, n \in 0..MaxKeyLen}
    \cup {<<"a","b","c","d">> \o Rep(c, n) \o <<"w","x","y","z">> :
              c \in {"1", "."}, n \in 0..(MaxKeyLen - 8)}
    \cup {spec_example, keyOpenAI, keyGemini}

\* candidates around the limits of every pattern
FormatKeys ==
    {<<>>, <<"s","k","-">>, keyAnthropic, keyGemini, keyOther}
    \cup {<<"s","k","-">> \o Rep("a", n) : n \in {10, 47, 48, 50, 51, 52, 60}}
    \cup {<<"s","k","-">> \o Rep("a", 47) \o <<"-">>,
          <<"s","k","-">> \o Rep("a", 50) \o <<"\n">>,
          <<"x","k","-">> \o Rep("a", 50), Rep("a", 51),
          <<"s","k","-","p","r","o","j","-">> \o Rep("a", 50)}
    \cup {<<"s","k","-","a","n","t","-">> \o Rep("c", n) : n \in {49, 50}}
    \cup {<<"A","I","z","a">> \o Rep("b", n) : n \in {34, 39, 40}}
    \cup {<<"p","p","l","x","-">> \o Rep("e", n) : n \in {31, 32}}
    \cup {<<"g","s","k","_">> \o Rep("f", n) : n \in {49, 50}}
    \cup {Rep("d", n) : n \in {19, 20, 200, 201}}
    \cup {Rep("d", 19) \o <<"!">>}

InitPure ==
    /\ onl = NoCall
    /\ runs = NoRuns
    /\ secret = [a \in Accounts |-> <<>>]
    /\ meta = [a \in Accounts |-> <<>>]
    /\ backup_file = <<>>
    /\ now = 0
    /\ ret = NoRet
    /\ before = [secret |-> [a \in Accounts |-> <<>>],
                 meta |-> [a \in Accounts |-> <<>>]]
    /\ call = NoArgs
    /\ \/ /\ \E key \in DisplayKeys, reveal \in BOOLEAN :
                 pure = [NoPure EXCEPT !.fn = "format_key_for_display",
                                       !.key = key, !.reveal = reveal]
          /\ config_file = "user"
       \/ /\ \E provider \in OnlineIdents, key \in FormatKeys,
                 with_config \in BOOLEAN :
                 pure = [NoPure EXCEPT !.fn = "validate_key_format",
                                       !.provider = provider, !.key = key,
                                       !.with_config = with_config]
          /\ config_file \in FileStates

FormatKeyForDisplay ==
    /\ pure.fn = "format_key_for_display"
    /\ ~pure.called
    /\ pure' = [pure EXCEPT !.called = TRUE,
                            !.out = format_key_for_display(pure.key, pure.reveal)]
    /\ UNCHANGED <<onl, secret, meta, backup_file, now, ret, before, call,
                   config_file, runs>>

ValidateKeyFormat ==
    /\ pure.fn = "validate_key_format"
    /\ ~pure.called
    /\ LET r == IF pure.with_config
                THEN validate_key_format(pure.provider, pure.key)
                ELSE validate_key_format_NoConfig(config_file, pure.provider,
                                                  pure.key)
       IN  pure' = [pure EXCEPT !.called = TRUE, !.ok = r.ok, !.out = r.message]
    /\ config_file' = IF pure.with_config THEN config_file
                      ELSE load_config(config_file).file
    /\ UNCHANGED <<onl, secret, meta, backup_file, now, ret, before, call,
                   runs>>

NextPure == FormatKeyForDisplay \/ ValidateKeyFormat

SpecPure == InitPure /\ [][NextPure]_vars

\* format_key_for_display returned
Displayed == pure.fn = "format_key_for_display" /\ pure.called

\* the key with every character the masked display leaves out replaced
Hidden(key) ==
    IF Len(key) <= 8 THEN Rep("x", Len(key))
    ELSE Take(key, 4) \o Rep("x", Len(key) - 8) \o Last(key, 4)

\* C23: with reveal false, format_key_for_display returns the mask **** for
\* every key of at most 8 characters, and for a longer key the first 4
\* characters, three dots and the last 4 characters; replacing the other
\* characters of the key changes nothing in what it returns; with reveal
\* true it returns the key.
C23_MaskedUnlessRevealed ==
    Displayed =>
        /\ pure.reveal => pure.out = pure.key
        /\ (~pure.reveal /\ Len(pure.key) <= 8) =>
               pure.out = <<"*","*","*","*">>
        /\ (~pure.reveal /\ Len(pure.key) > 8) =>
               /\ Len(pure.out) = 11
               /\ SubSeq(pure.out, 1, 4) = SubSeq(pure.key, 1, 4)
               /\ SubSeq(pure.out, 5, 7) = <<".",".",".">>
               /\ SubSeq(pure.out, 8, 11) =
                      SubSeq(pure.key, Len(pure.key) - 3, Len(pure.key))
        /\ ~pure.reveal =>
               pure.out = format_key_for_display(Hidden(pure.key), FALSE)

\* the example of the specification is displayed masked
C23_Witness ==
    /\ Displayed
    /\ ~pure.reveal
    /\ pure.key = spec_example
    /\ pure.out = <<"a","b","c","d",".",".",".","5","6","7","8">>

-----------------------------------------------------------------------------
(* Claims about messages, checked under SpecCall *)

\* the credential stored for provider before the operation, <<>> if none
StoredKey(provider) ==
    IF HasSecret(before, provider) THEN before.secret[provider][1] ELSE <<>>

\* the message update_key logs when its gate refuses the key, <<>> if none
GateMessage ==
    IF call.op = "update_key"
    THEN Gate(Target, call.api_key, call.validate, call.require_validation,
              NetFor(call.net, Target))
    ELSE <<>>

\* C24 as stated: no message logged by update_key and no message in the
\* results of validate_keys contains the characters of the secret the
\* operation handled.
C24_NoSecretInMessages ==
    /\ (call.op = "update_key" /\ call.api_key # <<>> /\ GateMessage # <<>>) =>
           ~Contains(GateMessage[1], call.api_key)
    /\ call.op = "validate_keys" =>
           \A i \in DOMAIN ret.results :
               StoredKey(ret.results[i].provider) # <<>> =>
                   ~Contains(ret.results[i].message,
                             StoredKey(ret.results[i].provider))

-----------------------------------------------------------------------------
(* Claims about validate_key_format, checked under SpecPure *)

\* validate_key_format returned
Formatted == pure.fn = "validate_key_format" /\ pure.called

\* the registry the call looked the provider up in: the configuration it
\* was given, or the one load_config returned
Registry ==
    IF pure.with_config \/ config_file = "user" THEN Providers
    ELSE DefaultProviders

Known == Lower(pure.provider) \in DOMAIN Registry

\* the required prefix of the provider of the call
Prefix == Registry[Lower(pure.provider)].key_prefix

UnknownProvider == <<"Unknown provider: ">> \o pure.provider
KeyIsEmpty == <<"Key is empty">>
MustStartWith == <<"Key must start with '">> \o Prefix \o <<"'">>

\* C25: validate_key_format applies its rules in the order unknown
\* provider, empty key, prefix mismatch, provider pattern, and returns the
\* reason of the first rule that fails: an unknown provider is reported
\* whatever the key is, an empty key of a known provider is reported as
\* empty, and a prefix mismatch is reported before the pattern is tried.
C25_FirstFailingRule ==
    Formatted =>
        /\ ~Known => (~pure.ok /\ pure.out = UnknownProvider)
        /\ (Known /\ pure.key = <<>>) => (~pure.ok /\ pure.out = KeyIsEmpty)
        /\ (Known /\ pure.key # <<>> /\ Prefix # <<>>
               /\ ~StartsWith(pure.key, Prefix)) =>
               (~pure.ok /\ pure.out = MustStartWith)
        /\ (Known /\ pure.key # <<>>
               /\ (Prefix = <<>> \/ StartsWith(pure.key, Prefix))) =>
               pure.out = ProviderFormat(Lower(pure.provider), pure.key,
                                         Prefix).message

\* an unknown provider called with an empty key is reported as unknown
C25_Witness ==
    /\ Formatted
    /\ pure.provider = cohere
    /\ pure.key = <<>>
    /\ ~pure.ok
    /\ pure.out = UnknownProvider

\* C26: for every provider of the registry that has a non-empty required
\* prefix P and every non-empty key that does not start with P,
\* validate_key_format fails with the reason that the key must start with
\* P, whatever the rest of the key is.
C26_PrefixRequired ==
    (Formatted /\ Known /\ Prefix # <<>> /\ ~StartsWith(pure.key, Prefix)) =>
        /\ ~pure.ok
        /\ pure.key # <<>> => pure.out = MustStartWith

\* an anthropic candidate that starts with sk- and has the length and the
\* characters of the pattern, without the -ant- infix
C26_Witness ==
    /\ Formatted
    /\ pure.provider = anthropic
    /\ pure.key = <<"s","k","-">> \o Rep("a", 60)
    /\ ~pure.ok
    /\ pure.out = MustStartWith

\* an openai key is sk- and 48 to 51 letters or digits
OpenAIShape(key) ==
    /\ StartsWith(key, <<"s","k","-">>)
    /\ Len(key) - 3 \in 48..51
    /\ \A i \in 4..Len(key) : key[i] \in AlNum

\* C27 as stated: validate_key_format for openai passes a key exactly when
\* it is sk- followed by 48 to 51 alphanumeric characters.
C27_OpenAIExactly ==
    (Formatted /\ Known /\ Lower(pure.provider) = openai) =>
        (pure.ok <=> OpenAIShape(pure.key))

\* C28 as stated: a call of validate_key_format, with or without a
\* configuration argument, leaves the configuration file, the credential
\* store and the backup file as they were.
C28_NoSideEffects ==
    [][ValidateKeyFormat =>
           UNCHANGED <<config_file, secret, meta, backup_file>>]_vars

-----------------------------------------------------------------------------
(* Claims about provider identifiers, checked under SpecCall *)

\* the operation was called for an identifier that is not in the registry
ForUnknown ==
    /\ call.op \in {"update_key", "validate_keys"}
    /\ call.provider # <<>>
    /\ get_provider_config(Target) = <<>>

\* C29 as stated: update_key called for a provider that is not in the
\* registry fails, with or without its validation gate, and stores nothing
\* for it, and validate_keys called for such a provider reports an unknown
\* provider.
C29_UnknownProviderRefused ==
    ForUnknown =>
        /\ call.op = "update_key" => (~ret.ok /\ Untouched(Target))
        /\ call.op = "validate_keys" =>
               \A i \in DOMAIN ret.results :
                   Contains(ret.results[i].message, <<"Unknown provider: ">>)

\* show_key: text is <<>> (None) or <<info>>, the lines of the text;
\* defaults holds the metadata keys whose line shows its default label;
\* raised: the keyring call raised and show_key does not catch it
show_key(st, provider, reveal_key, F) ==
    LET stored == KeyringGet(st.secret, provider)
        metadata == _get_key_metadata(st, provider, F)
    IN  IF Fails(F, "get", provider) THEN [raised |-> TRUE, text |-> <<>>]
        ELSE IF stored = <<>> \/ stored[1] = <<>>
        THEN [raised |-> FALSE, text |-> <<>>]
        ELSE [raised |-> FALSE,
              text |-> <<[provider |-> provider,
                          key |-> format_key_for_display(stored[1], reveal_key),
                          created |-> metadata.created_at,
                          last_validated |-> metadata.last_validated,
                          status |-> metadata.validation_status,
                          defaults |-> {"created_at", "last_validated",
                                        "validation_status"} \ metadata.keys]>>]

\* the identifiers that differ from the one of the call at most in case
SameProvider == {q \in Callers : Lower(q) = Lower(Target)}

\* C30 as stated: a credential stored by update_key under one casing of a
\* provider identifier is found by show_key, list_keys, validate_keys and
\* remove_key under every other casing of the identifier.
C30_CaseInsensitive ==
    (call.op = "update_key" /\ ret.ok) =>
        \A q \in SameProvider :
            /\ show_key(Current, q, FALSE, NoFault).text # <<>>
            /\ list_keys(Current, <<q>>, NoFault) = <<q>>
            /\ validate_keys(Current, <<q>>, netGood, now, NoFault).results[1].message
                   # <<"Key not found">>
            /\ remove_key(Current, q, NoFault).ok

-----------------------------------------------------------------------------
(* SpecRead: one list_keys or show_key call on a keyring left by earlier    *)
(* operations, among them ungated stores under identifiers that are not     *)
(* keys of the registry.                                                    *)

\* list_keys(details=True): one summary per listed provider, built from
\* metadata.get('validation_status', 'unknown') and, when it is set,
\* metadata['last_validated']
list_keys_details(st, provider, F) ==
    LET keys == list_keys(st, provider, F)
        summary(prov) ==
            LET metadata == _get_key_metadata(st, prov, F)
            IN  [provider |-> prov,
                 status |-> IF "validation_status" \in metadata.keys
                            THEN metadata.validation_status ELSE "unknown",
                 last_validated |-> metadata.last_validated]
    IN  [i \in DOMAIN keys |-> summary(keys[i])]

ListArgs(provider, details, F) ==
    [Args("list_keys", provider, <<>>, <<>>, FALSE, FALSE, FALSE, <<>>, F)
        EXCEPT !.details = details]

ShowArgs(provider, reveal_key, F) ==
    [Args("show_key", <<provider>>, <<>>, <<>>, FALSE, FALSE, FALSE, <<>>, F)
        EXCEPT !.reveal_key = reveal_key]

\* the earlier operations of a session that is read
ReadOps ==
    { UpdateArgs(openai, keyOpenAI, FALSE, TRUE, <<>>, NoFault),
      UpdateArgs(OpenAI, keyOpenAI, FALSE, TRUE, <<>>, NoFault),
      UpdateArgs(cohere, keyOther, FALSE, TRUE, <<>>, NoFault),
      UpdateArgs(gemini, keyShort, FALSE, TRUE, <<>>, NoFault),
      ValidateArgs(<<>>, netGood, NoFault),
      RemoveArgs(openai, NoFault) }

ReadSessions ==
    {RunHistory(Session(EmptyKeyring, <<>>, 0), h, 1) :
         h \in UNION {[1..n -> ReadOps] : n \in 0..MaxHistory}}

InitRead ==
    /\ onl = NoCall
    /\ \E s \in ReadSessions :
           /\ secret = s.st.secret
           /\ meta = s.st.meta
           /\ backup_file = s.file
           /\ now = s.now
           /\ before = s.st
    /\ ret = NoRet
    /\ call = NoArgs
    /\ pure = NoPure
    /\ config_file = "user"
    /\ runs = NoRuns

CallListKeys(provider, details, F) ==
    LET keys == IF details THEN list_keys_details(Current, provider, F)
                ELSE list_keys(Current, provider, F)
    IN  /\ Returns(Current, backup_file,
                   Ret("list_keys", provider, FALSE, 0, keys))
        /\ call' = ListArgs(provider, details, F)

CallShowKey(provider, reveal_key, F) ==
    LET r == show_key(Current, provider, reveal_key, F)
    IN  /\ Returns(Current, backup_file,
                   [Ret("show_key", <<provider>>, FALSE, 0, <<>>)
                       EXCEPT !.text = r.text, !.raised = r.raised])
        /\ call' = ShowArgs(provider, reveal_key, F)

NextRead ==
    \/ \E provider \in {<<>>} \cup {<<p>> : p \in Callers}, details \in BOOLEAN :
          \E F \in FaultsOf({"get", "get_meta"}, {openai}) :
              CallListKeys(provider, details, F)
    \/ \E provider \in Callers, reveal_key \in BOOLEAN :
          \E F \in FaultsOf({"get", "get_meta"}, {provider}) :
              CallShowKey(provider, reveal_key, F)

SpecRead == InitRead /\ [][NextRead]_vars

\* list_keys returned the identifiers, on a keyring that answers
ListsPlain == call.op = "list_keys" /\ ~call.details /\ call.F = NoFault

\* C31 as stated: list_keys without a filter returns exactly the providers
\* that have a stored credential, and with a filter returns that provider if
\* and only if it has one.
C31_ListsEveryCredential ==
    ListsPlain =>
        IF call.provider = <<>>
        THEN Range(ret.results) = {a \in Accounts : HasSecret(before, a)}
        ELSE (ret.results = call.provider) <=> HasSecret(before, Target)

\* C32 as stated: no operation lets a failure of a keyring call reach its
\* caller as an exception; here for the operations that read, list_keys and
\* show_key, with the keyring failing on a read.
C32_NoFaultReachesCaller ==
    call.op \in {"list_keys", "show_key"} => ~ret.raised

-----------------------------------------------------------------------------
(* Claims about validate_keys and about failing store calls, checked under  *)
(* SpecCall                                                                 *)

\* the providers validate_keys was asked about: the one named, or the
\* listed ones
Asked ==
    IF call.op # "validate_keys" THEN <<>>
    ELSE IF call.provider # <<>> THEN call.provider
    ELSE list_keys(before, <<>>, call.F)

\* C33: validate_keys returns one entry for every provider it was asked
\* about, in that order, and raises no exception; a provider without a
\* stored credential gets the entry valid = False, Key not found, and its
\* secret and metadata are left as they were (no metadata is created).
C33_EntryForEveryProvider ==
    call.op = "validate_keys" =>
        /\ ~ret.raised
        /\ secret = before.secret
        /\ Len(ret.results) = Len(Asked)
        /\ \A i \in DOMAIN Asked :
               /\ ret.results[i].provider = Asked[i]
               /\ (~HasSecret(before, Asked[i])
                      /\ ~Fails(call.F, "get", Asked[i])) =>
                      /\ ~ret.results[i].valid
                      /\ ret.results[i].message = <<"Key not found">>
                      /\ Untouched(Asked[i])

\* validate_keys is asked about a provider that has no credential, on a
\* keyring that holds the credential of another provider
C33_Witness ==
    /\ call.op = "validate_keys"
    /\ call.provider # <<>>
    /\ ~HasSecret(before, Target)
    /\ \E a \in Accounts : HasSecret(before, a)
    /\ Len(ret.results) = 1
    /\ ret.results[1].message = <<"Key not found">>
    /\ ~HasMeta(Current, Target)

-----------------------------------------------------------------------------
(* Claim about the delays of validate_key_online, checked under SpecOnline  *)

\* the probes and delays of the call, in the order they happened
Events == onl.result.log

\* C34: in validate_key_online a delay occurs only between two consecutive
\* attempts: the events of a call are probe, delay, probe, ..., probe, so
\* every attempt after the first is preceded by exactly one delay, no delay
\* follows the attempt whose result is returned, and a call with k >= 1
\* probes has exactly k - 1 delays; a call without a probe has no delay.
C34_DelayOnlyBetweenAttempts ==
    onl.called =>
        /\ \A i \in DOMAIN Events :
               Events[i] = (IF i % 2 = 1 THEN "probe" ELSE "sleep")
        /\ Events # <<>> => Events[Len(Events)] = "probe"
        /\ Probes >= 1 => Sleeps = Probes - 1
        /\ Probes = 0 => Sleeps = 0

\* a call of three attempts, the first two of which did not end it
C34_Witness ==
    /\ onl.called
    /\ Probes = 3
    /\ Sleeps = 2
    /\ Events = <<"probe", "sleep", "probe", "sleep", "probe">>

-----------------------------------------------------------------------------
(* Claims about keyring errors inside an operation, checked under SpecCall  *)

\* a keyring write of _store_key for account a raised during the call
WriteFailed(a) ==
    \/ Fails(call.F, "set", a)
    \/ Fails(call.F, "set_meta", a)

\* C35 as stated: when a keyring write fails inside _store_key, so that
\* update_key returns False or import_from_env does not count the entry, the
\* secret and the metadata of that provider are what they were before the
\* call.
C35_FailedWriteLeavesStore ==
    /\ (call.op = "update_key" /\ WriteFailed(Target) /\ ~ret.ok)
           => Untouched(Target)
    /\ call.op = "import_from_env"
           => \A a \in {openai, gemini} : WriteFailed(a) => Untouched(a)

\* C36 as stated: import_from_env with force = false never changes the
\* stored secret of a provider that already has one, also when the keyring
\* read of the existence check fails.
C36_ExistingNeverOverwritten ==
    (call.op = "import_from_env" /\ ~call.force)
        => \A a \in Accounts :
               HasSecret(before, a) => secret[a] = before.secret[a]

-----------------------------------------------------------------------------
(* Two invocations of the program at once, interleaved keyring call by      *)
(* keyring call: validate_keys started by the scheduler, and remove_key or  *)
(* update_key started by the user. No lock is held over the keyring.        *)

RaceProviders == {openai, gemini}

\* validate_keys(provider) before its first keyring call
Scheduled(provider, script) ==
    [pc |-> "get_key", provider |-> provider, script |-> script,
     api_key |-> <<>>, valid |-> FALSE, metadata |-> EmptyDict,
     wrote |-> FALSE]

\* remove_key(provider), or update_key(provider, api_key, validate=False),
\* before its first keyring call
ByUser(op, provider, api_key) ==
    [op |-> op, pc |-> IF op = "remove_key" THEN "delete_key" ELSE "set_key",
     provider |-> provider, api_key |-> api_key, ok |-> FALSE]

UserRuns ==
    {ByUser("remove_key", p, <<>>) : p \in RaceProviders}
    \cup {ByUser("update_key", p, keyRotated) : p \in RaceProviders}

InitRace ==
    /\ onl = NoCall
    /\ \E s \in Sessions :
           /\ secret = s.st.secret
           /\ meta = s.st.meta
           /\ backup_file = s.file
           /\ now = s.now
           /\ before = s.st
    /\ ret = NoRet
    /\ call = NoArgs
    /\ pure = NoPure
    /\ config_file = "user"
    /\ \E p \in RaceProviders, script \in NetScripts, u \in UserRuns :
           runs = [validate |-> Scheduled(p, script), user |-> u]

\* a step of one invocation: its keyring call and what it computes up to
\* its next keyring call
RaceStep(sec, met, v, u) ==
    /\ secret' = sec
    /\ meta' = met
    /\ runs' = [validate |-> v, user |-> u]
    /\ now' = now + 1
    /\ UNCHANGED <<onl, backup_file, ret, before, call, pure, config_file>>

\* validate_keys: keyring.get_password of the secret, then the format and
\* the online validation of what was read
ValidateGetKey ==
    /\ runs # NoRuns
    /\ runs.validate.pc = "get_key"
    /\ LET v == runs.validate
           stored == KeyringGet(secret, v.provider)
       IN  IF stored = <<>> \/ stored[1] = <<>>
           THEN RaceStep(secret, meta, [v EXCEPT !.pc = "done"], runs.user)
           ELSE IF ~validate_key_format(v.provider, stored[1]).ok
           THEN RaceStep(secret, meta,
                         [v EXCEPT !.pc = "done", !.api_key = stored],
                         runs.user)
           ELSE RaceStep(secret, meta,
                         [v EXCEPT !.pc = "get_meta", !.api_key = stored,
                              !.valid = validate_key_online(v.provider,
                                  stored[1], RetryAttempts, v.script).valid],
                         runs.user)

\* validate_keys: _get_key_metadata, then the two fields are set in the copy
ValidateGetMeta ==
    /\ runs # NoRuns
    /\ runs.validate.pc = "get_meta"
    /\ LET v == runs.validate
       IN  RaceStep(secret, meta,
                    [v EXCEPT !.pc = "set_meta",
                         !.metadata = Validated(
                             _get_key_metadata(Current, v.provider, NoFault),
                             v.valid, now)],
                    runs.user)

\* validate_keys: _update_key_metadata writes the copy back
ValidateSetMeta ==
    /\ runs # NoRuns
    /\ runs.validate.pc = "set_meta"
    /\ LET v == runs.validate
       IN  RaceStep(secret,
                    _update_key_metadata(Current, v.provider, v.metadata,
                                         NoFault).st.meta,
                    [v EXCEPT !.pc = "done", !.wrote = TRUE], runs.user)

\* remove_key: keyring.delete_password of the secret, which raises when
\* there is none
UserDeleteKey ==
    /\ runs # NoRuns
    /\ runs.user.pc = "delete_key"
    /\ LET u == runs.user
       IN  IF KeyringGet(secret, u.provider) = <<>>
           THEN RaceStep(secret, meta, runs.validate, [u EXCEPT !.pc = "done"])
           ELSE RaceStep(KeyringDelete(secret, u.provider), meta,
                         runs.validate, [u EXCEPT !.pc = "delete_meta"])

\* remove_key: keyring.delete_password of the metadata, errors ignored
UserDeleteMeta ==
    /\ runs # NoRuns
    /\ runs.user.pc = "delete_meta"
    /\ LET u == runs.user
       IN  RaceStep(secret, KeyringDelete(meta, u.provider), runs.validate,
                    [u EXCEPT !.pc = "done", !.ok = TRUE])

\* update_key, _store_key: keyring.set_password of the secret
UserSetKey ==
    /\ runs # NoRuns
    /\ runs.user.pc = "set_key"
    /\ LET u == runs.user
       IN  RaceStep(KeyringSet(secret, u.provider, u.api_key), meta,
                    runs.validate, [u EXCEPT !.pc = "set_meta"])

\* update_key, _store_key: keyring.set_password of the new metadata
UserSetMeta ==
    /\ runs # NoRuns
    /\ runs.user.pc = "set_meta"
    /\ LET u == runs.user
       IN  RaceStep(secret,
                    KeyringSet(meta, u.provider, NewMetadata(u.provider, now)),
                    runs.validate, [u EXCEPT !.pc = "done", !.ok = TRUE])

NextRace ==
    \/ ValidateGetKey
    \/ ValidateGetMeta
    \/ ValidateSetMeta
    \/ UserDeleteKey
    \/ UserDeleteMeta
    \/ UserSetKey
    \/ UserSetMeta

SpecRace == InitRace /\ [][NextRace]_vars

\* both invocations have returned
BothFinished ==
    /\ runs # NoRuns
    /\ runs.validate.pc = "done"
    /\ runs.user.pc = "done"

\* the status validate_keys wrote is still in the record of its provider
StatusWritten ==
    /\ runs.validate.wrote
    /\ HasMeta(Current, runs.validate.provider)
    /\ MetaOf(Current, runs.validate.provider).last_validated
           = runs.validate.metadata.last_validated

\* C37 as stated: when a scheduled validate_keys and a remove_key or
\* update_key of the user interleave keyring call by keyring call, then once
\* both have finished a metadata record exists only for providers that have
\* a credential, and the status validate_keys recorded is the verdict on the
\* credential now stored, not on one removed or replaced in between.
C37_InterleavingKeepsInvariant ==
    BothFinished =>
        /\ \A a \in Accounts : HasMeta(Current, a) => HasSecret(Current, a)
        /\ StatusWritten =>
               secret[runs.validate.provider] = runs.validate.api_key

====
